---- MODULE Spec2Model ----
(***************************************************************************)
(* A model of the DecimalTime repository: the decimal_time package         *)
(* (PlanetProfile, DecimalTimeConverter, DecimalSolarCalendar) and the     *)
(* DeciStruct of lib_deci_time.                                            *)
(*                                                                         *)
(* Python's decimal.Decimal is modelled as the record                      *)
(*     [sign |-> 0 or 1, int |-> coefficient digits, exp |-> exponent]     *)
(* (the fields _sign, _int, _exp of the library), with the coefficient a   *)
(* sequence of decimal digits, most significant first, so that the         *)
(* 50-digit working precision of the code is kept as it is.  A Python int  *)
(* is the same record with exp = 0.                                        *)
(***************************************************************************)
EXTENDS Integers, Sequences, FiniteSets, TLC

(***************************************************************************)
(* Natural numbers as digit sequences (no leading zero; zero is <<0>>).    *)
(***************************************************************************)
Front(s) == SubSeq(s, 1, Len(s) - 1)

Zeros(n) == [i \in 1..n |-> 0]

NatIsZero(a) == \A i \in 1..Len(a) : a[i] = 0

\* a without its leading zeros
Strip(s) ==
    IF NatIsZero(s) THEN <<0>>
    ELSE LET first == CHOOSE i \in 1..Len(s) :
                         s[i] # 0 /\ \A j \in 1..(i - 1) : s[j] = 0
         IN  SubSeq(s, first, Len(s))

PadTo(a, n) == Zeros(n - Len(a)) \o a

RECURSIVE NatOfInt(_)
NatOfInt(n) == IF n < 10 THEN <<n>> ELSE Append(NatOfInt(n \div 10), n % 10)

RECURSIVE IntOfNat(_)
IntOfNat(a) == IF a = <<>> THEN 0 ELSE 10 * IntOfNat(Front(a)) + a[Len(a)]

\* -1, 0 or 1 as a < b, a = b or a > b (both without leading zeros)
NatCmp(a, b) ==
    IF Len(a) # Len(b) THEN (IF Len(a) < Len(b) THEN -1 ELSE 1)
    ELSE LET diff == {i \in 1..Len(a) : a[i] # b[i]}
         IN  IF diff = {} THEN 0
             ELSE LET i == CHOOSE j \in diff : \A k \in diff : j <= k
                  IN  IF a[i] < b[i] THEN -1 ELSE 1

\* The digit-wise operations split their operands in halves, the low half
\* first, so that the carry runs from the last digit to the first.
\* a + b + c for a and b of the same length: [d |-> digits, c |-> carry out]
RECURSIVE AddV(_, _, _)
AddV(a, b, c) ==
    IF Len(a) = 1
    THEN LET s == a[1] + b[1] + c IN [d |-> <<s % 10>>, c |-> s \div 10]
    ELSE LET h  == Len(a) \div 2
             lo == AddV(SubSeq(a, h + 1, Len(a)), SubSeq(b, h + 1, Len(b)), c)
         IN  IF lo.c >= 0
             THEN LET hi == AddV(SubSeq(a, 1, h), SubSeq(b, 1, h), lo.c)
                  IN  [d |-> hi.d \o lo.d, c |-> hi.c]
             ELSE lo

NatAdd(a, b) ==
    LET n == IF Len(a) > Len(b) THEN Len(a) ELSE Len(b)
        r == AddV(PadTo(a, n), PadTo(b, n), 0)
    IN  Strip(<<r.c>> \o r.d)

\* a - b - c for a and b of the same length: [d |-> digits, c |-> borrow out]
RECURSIVE SubV(_, _, _)
SubV(a, b, c) ==
    IF Len(a) = 1
    THEN LET s == a[1] - b[1] - c
         IN  [d |-> <<IF s < 0 THEN s + 10 ELSE s>>, c |-> IF s < 0 THEN 1 ELSE 0]
    ELSE LET h  == Len(a) \div 2
             lo == SubV(SubSeq(a, h + 1, Len(a)), SubSeq(b, h + 1, Len(b)), c)
         IN  IF lo.c >= 0
             THEN LET hi == SubV(SubSeq(a, 1, h), SubSeq(b, 1, h), lo.c)
                  IN  [d |-> hi.d \o lo.d, c |-> hi.c]
             ELSE lo

\* a - b for a >= b
NatSub(a, b) == Strip(SubV(a, PadTo(b, Len(a)), 0).d)

\* a * k + c for a digit k: [d |-> digits, c |-> carry out]
RECURSIVE MulV(_, _, _)
MulV(a, k, c) ==
    IF Len(a) = 1
    THEN LET p == a[1] * k + c IN [d |-> <<p % 10>>, c |-> p \div 10]
    ELSE LET h  == Len(a) \div 2
             lo == MulV(SubSeq(a, h + 1, Len(a)), k, c)
         IN  IF lo.c >= 0
             THEN LET hi == MulV(SubSeq(a, 1, h), k, lo.c)
                  IN  [d |-> hi.d \o lo.d, c |-> hi.c]
             ELSE lo

NatMulDigit(a, k) == LET r == MulV(a, k, 0) IN Strip(<<r.c>> \o r.d)

\* a * 10^n
NatShift(a, n) == Strip(a \o Zeros(n))

Min(a, b) == IF a < b THEN a ELSE b

Max(a, b) == IF a > b THEN a ELSE b

(***************************************************************************)
(* decimal.Decimal.  The operations that build on one another are the      *)
(* arms of one recursive operator, DecimalArm(op, x), x the tuple of the   *)
(* arguments, which DecimalLib applies to the values of the arguments;     *)
(* each has a definition of its own name in front of it.  prec             *)
(* is the precision of the context, whose rounding is ROUND_HALF_EVEN.     *)
(***************************************************************************)
Dec(sign, int, exp) == [sign |-> sign, int |-> int, exp |-> exp]

\* Decimal(n) and the Python int n
DecOfInt(n) == IF n < 0 THEN Dec(1, NatOfInt(-n), 0) ELSE Dec(0, NatOfInt(n), 0)

DecIsZero(d) == NatIsZero(d.int)

DecNeg(d) == Dec(1 - d.sign, d.int, d.exp)

\* the coefficient of d written at the exponent e <= d.exp
CoefAt(d, e) == NatShift(d.int, d.exp - e)

\* Decimal.adjusted
Adjusted(d) == d.exp + Len(d.int) - 1

\* Decimal._round_half_even: 1 to round the coefficient up when only its
\* first keep digits are kept, 0 when the rest is zero, -1 to round down
RoundHalfEven(int, keep) ==
    LET rest  == SubSeq(int, keep + 1, Len(int))
        half  == /\ rest # <<>>
                 /\ rest[1] = 5
                 /\ \A i \in 2..Len(rest) : rest[i] = 0
        even  == keep = 0 \/ int[keep] % 2 = 0
    IN  IF half /\ even THEN -1
        ELSE IF rest # <<>> /\ rest[1] >= 5 THEN 1
        ELSE IF NatIsZero(rest) THEN 0
        ELSE -1

\* the number of trailing zeros of coef, its first digit apart
TrailingZeros(coef) ==
    CHOOSE n \in 0..(Len(coef) - 1) :
        /\ \A i \in (Len(coef) - n + 1)..Len(coef) : coef[i] = 0
        /\ (n = Len(coef) - 1 \/ coef[Len(coef) - n] # 0)

\* coef * 10^exp without n of its trailing zeros
DropZeros(sign, coef, exp, n) == Dec(sign, SubSeq(coef, 1, Len(coef) - n), exp + n)

\* a Python int (exp = 0) of a few digits as an integer
PyInt(d) == IF d.sign = 1 THEN -IntOfNat(d.int) ELSE IntOfNat(d.int)

DigitChars == <<"0", "1", "2", "3", "4", "5", "6", "7", "8", "9">>

\* the digits of int as characters
Chars(int) == [i \in 1..Len(int) |-> DigitChars[int[i] + 1]]

RECURSIVE DecimalLib(_, _)
RECURSIVE DecimalArm(_, _)

\* a * b
NatMul(a, b) == DecimalLib("NatMul", <<a, b>>)

\* one step of long division: the remainder r so far, the next digit d of
\* the dividend, the divisor b: [q |-> <<digit>>, r |-> remainder]
DivStep(r, d, b) == DecimalLib("DivStep", <<r, d, b>>)

\* long division of the digits a, after the remainder r, by b
DivV(a, r, b) == DecimalLib("DivV", <<a, r, b>>)

\* divmod(a, b) for b > 0: [q |-> quotient, r |-> remainder]
NatDivMod(a, b) == DecimalLib("NatDivMod", <<a, b>>)

\* -1, 0 or 1 as a < b, a = b or a > b, numerically (so that -0 = 0)
DecCmp(a, b) == DecimalLib("DecCmp", <<a, b>>)

\* Decimal._fix: round d to the precision of the context
DecFix(d, prec) == DecimalLib("DecFix", <<d, prec>>)

\* the exact sum, at the smaller exponent (the sum of two Python ints)
DecAddExact(a, b) == DecimalLib("DecAddExact", <<a, b>>)

\* Decimal.__add__, Decimal.__sub__, Decimal.__mul__
DecAdd(a, b, prec) == DecimalLib("DecAdd", <<a, b, prec>>)

DecSub(a, b, prec) == DecimalLib("DecAdd", <<a, DecNeg(b), prec>>)

DecMul(a, b, prec) == DecimalLib("DecMul", <<a, b, prec>>)

\* Decimal.__truediv__ for b # 0: the quotient correctly rounded to prec
\* digits (a sticky last digit stands for an inexact remainder)
DecDiv(a, b, prec) == DecimalLib("DecDiv", <<a, b, prec>>)

\* Decimal.__floordiv__ for b # 0: [ok, val], val the integer part of the
\* quotient, truncated towards zero; ok is FALSE (DivisionImpossible) when
\* it has more than prec digits
DecFloorDiv(a, b, prec) == DecimalLib("DecFloorDiv", <<a, b, prec>>)

\* Decimal.__mod__ for b # 0 and a quotient of at most prec digits: the
\* remainder, with the sign of a
DecMod(a, b, prec) == DecimalLib("DecMod", <<a, b, prec>>)

\* int(d): truncation towards zero, as a Python int
DecToInt(d) == DecimalLib("DecToInt", <<d>>)

\* Decimal.to_integral_value(rounding=ROUND_FLOOR), as a Python int
DecFloor(d) == DecimalLib("DecFloor", <<d>>)

\* Decimal.normalize: round to the context, then drop the trailing zeros
DecNormalize(d, prec) == DecimalLib("DecNormalize", <<d, prec>>)

\* Decimal._rescale(exp, ROUND_HALF_EVEN): d written at the exponent exp
DecRescale(d, exp) == DecimalLib("DecRescale", <<d, exp>>)

\* format(d, '.<places>f'): Decimal.__format__ with the type f
FormatF(d, places) == DecimalLib("FormatF", <<d, places>>)

\* helpers of the arms below
RoundCoef(sign, int, keep, exp) == DecimalLib("RoundCoef", <<sign, int, keep, exp>>)

DivRound(sign, dm, exp, ideal, prec) == DecimalLib("DivRound", <<sign, dm, exp, ideal, prec>>)

FixedPoint(r) == DecimalLib("FixedPoint", <<r>>)

\* the arguments args are evaluated, and the arm of the operation applied
\* to their values
DecimalLib(op, args) == CHOOSE r \in {DecimalArm(op, x) : x \in {args}} : TRUE

DecimalArm(op, x) ==
    CASE op = "NatMul" ->
            IF Len(x[2]) = 1 THEN NatMulDigit(x[1], x[2][1])
            ELSE NatAdd(NatShift(NatMul(x[1], SubSeq(x[2], 1, Len(x[2]) \div 2)),
                                 Len(x[2]) - Len(x[2]) \div 2),
                        NatMul(x[1], SubSeq(x[2], Len(x[2]) \div 2 + 1, Len(x[2]))))
      [] op = "DivStep" ->
            LET cur == Strip(Append(x[1], x[2]))
                k   == CHOOSE q \in 0..9 :
                          /\ NatCmp(NatMulDigit(x[3], q), cur) <= 0
                          /\ (q = 9 \/ NatCmp(NatMulDigit(x[3], q + 1), cur) > 0)
            IN  [q |-> <<k>>, r |-> NatSub(cur, NatMulDigit(x[3], k))]
      [] op = "DivV" ->
            IF Len(x[1]) = 1 THEN DivStep(x[2], x[1][1], x[3])
            ELSE LET h  == Len(x[1]) \div 2
                     hi == DivV(SubSeq(x[1], 1, h), x[2], x[3])
                 IN  IF hi.r # <<>>
                     THEN LET lo == DivV(SubSeq(x[1], h + 1, Len(x[1])), hi.r, x[3])
                          IN  [q |-> hi.q \o lo.q, r |-> lo.r]
                     ELSE hi
      [] op = "NatDivMod" ->
            LET dm == DivV(x[1], <<0>>, x[2]) IN [q |-> Strip(dm.q), r |-> dm.r]
      [] op = "DecCmp" ->
            LET a  == x[1]
                b  == x[2]
                e  == Min(a.exp, b.exp)
                sa == IF DecIsZero(a) THEN 0 ELSE IF a.sign = 1 THEN -1 ELSE 1
                sb == IF DecIsZero(b) THEN 0 ELSE IF b.sign = 1 THEN -1 ELSE 1
            IN  IF sa # sb THEN (IF sa < sb THEN -1 ELSE 1)
                ELSE IF sa = 0 THEN 0
                ELSE sa * NatCmp(CoefAt(a, e), CoefAt(b, e))
      [] op = "RoundCoef" ->
            \* the first keep digits of int, rounded half-even, at exponent exp
            LET coef == Strip(SubSeq(x[2], 1, x[3]))
            IN  Dec(x[1],
                    IF RoundHalfEven(x[2], x[3]) = 1 THEN NatAdd(coef, <<1>>) ELSE coef,
                    x[4])
      [] op = "DecFix" ->
            LET d    == x[1]
                prec == x[2]
                r    == RoundCoef(d.sign, d.int, prec, d.exp + Len(d.int) - prec)
            IN  IF DecIsZero(d) \/ Len(d.int) <= prec THEN d
                ELSE IF Len(r.int) > prec THEN Dec(r.sign, Front(r.int), r.exp + 1)
                ELSE r
      [] op = "DecAddExact" ->
            LET a  == x[1]
                b  == x[2]
                e  == Min(a.exp, b.exp)
                ma == CoefAt(a, e)
                mb == CoefAt(b, e)
                cm == NatCmp(ma, mb)
            IN  IF a.sign = b.sign THEN Dec(a.sign, NatAdd(ma, mb), e)
                ELSE IF cm = 0 THEN Dec(0, <<0>>, e)
                ELSE IF cm > 0 THEN Dec(a.sign, NatSub(ma, mb), e)
                ELSE Dec(b.sign, NatSub(mb, ma), e)
      [] op = "DecAdd" -> DecFix(DecAddExact(x[1], x[2]), x[3])
      [] op = "DecMul" ->
            \* the shorter coefficient is the one taken digit by digit
            DecFix(Dec((x[1].sign + x[2].sign) % 2,
                       IF Len(x[1].int) < Len(x[2].int) THEN NatMul(x[2].int, x[1].int)
                       ELSE NatMul(x[1].int, x[2].int),
                       x[1].exp + x[2].exp), x[3])
      [] op = "DivRound" ->
            \* the quotient and remainder x[2] of the coefficients, rounded
            LET sign == x[1]
                dm   == x[2]
                exp  == x[3]
                n    == Min(TrailingZeros(dm.q), Max(x[4] - exp, 0))
            IN  IF ~NatIsZero(dm.r)
                THEN DecFix(Dec(sign,
                                IF dm.q[Len(dm.q)] % 5 = 0 THEN NatAdd(dm.q, <<1>>)
                                ELSE dm.q,
                                exp), x[5])
                ELSE DecFix(DropZeros(sign, dm.q, exp, n), x[5])
      [] op = "DecDiv" ->
            LET a     == x[1]
                b     == x[2]
                sign  == (a.sign + b.sign) % 2
                shift == Len(b.int) - Len(a.int) + x[3] + 1
            IN  IF DecIsZero(a) THEN DecFix(Dec(sign, <<0>>, a.exp - b.exp), x[3])
                ELSE DivRound(sign,
                              IF shift >= 0
                              THEN NatDivMod(NatShift(a.int, shift), b.int)
                              ELSE NatDivMod(a.int, NatShift(b.int, -shift)),
                              a.exp - b.exp - shift, a.exp - b.exp, x[3])
      [] op = "DecFloorDiv" ->
            LET a    == x[1]
                b    == x[2]
                sign == (a.sign + b.sign) % 2
                e    == Min(a.exp, b.exp)
                q    == NatDivMod(CoefAt(a, e), CoefAt(b, e)).q
            IN  IF DecIsZero(a) \/ Adjusted(a) - Adjusted(b) <= -2
                THEN [ok |-> TRUE, val |-> Dec(sign, <<0>>, 0)]
                ELSE IF Adjusted(a) - Adjusted(b) > x[3]
                THEN [ok |-> FALSE, val |-> Dec(0, <<0>>, 0)]
                ELSE [ok |-> Len(q) <= x[3], val |-> Dec(sign, q, 0)]
      [] op = "DecMod" ->
            LET a == x[1]
                b == x[2]
                e == Min(a.exp, b.exp)
            IN  IF DecIsZero(a) THEN DecFix(Dec(a.sign, <<0>>, e), x[3])
                ELSE IF Adjusted(a) - Adjusted(b) <= -2
                THEN DecFix(Dec(a.sign, CoefAt(a, e), e), x[3])
                ELSE DecFix(Dec(a.sign, NatDivMod(CoefAt(a, e), CoefAt(b, e)).r, e), x[3])
      [] op = "DecToInt" ->
            LET d   == x[1]
                mag == IF d.exp >= 0 THEN NatShift(d.int, d.exp)
                       ELSE Strip(SubSeq(d.int, 1, Len(d.int) + d.exp))
            IN  Dec(IF NatIsZero(mag) THEN 0 ELSE d.sign, mag, 0)
      [] op = "DecFloor" ->
            LET d    == x[1]
                keep == Max(Len(d.int) + d.exp, 0)
                coef == Strip(SubSeq(d.int, 1, keep))
                mag  == IF d.sign = 1 /\ ~NatIsZero(SubSeq(d.int, keep + 1, Len(d.int)))
                        THEN NatAdd(coef, <<1>>) ELSE coef
            IN  IF d.exp >= 0 THEN DecToInt(d)
                ELSE Dec(IF NatIsZero(mag) THEN 0 ELSE d.sign, mag, 0)
      [] op = "DecNormalize" ->
            LET dup == DecFix(x[1], x[2])
            IN  IF DecIsZero(dup) THEN Dec(dup.sign, <<0>>, 0)
                ELSE DropZeros(dup.sign, dup.int, dup.exp, TrailingZeros(dup.int))
      [] op = "DecRescale" ->
            LET d      == x[1]
                exp    == x[2]
                digits == Len(d.int) + d.exp - exp
            IN  IF DecIsZero(d) THEN Dec(d.sign, <<0>>, exp)
                ELSE IF d.exp >= exp THEN Dec(d.sign, d.int \o Zeros(d.exp - exp), exp)
                ELSE IF digits < 0 THEN RoundCoef(d.sign, <<1>>, 0, exp)
                ELSE RoundCoef(d.sign, d.int, digits, exp)
      [] op = "FixedPoint" ->
            \* the characters of r, written without an exponent
            LET r        == x[1]
                dotplace == r.exp + Len(r.int)
                intpart  == IF dotplace <= 0 THEN <<0>>
                            ELSE IF dotplace > Len(r.int)
                            THEN r.int \o Zeros(dotplace - Len(r.int))
                            ELSE SubSeq(r.int, 1, dotplace)
                fracpart == IF dotplace < 0 THEN Zeros(-dotplace) \o r.int
                            ELSE IF dotplace > Len(r.int) THEN <<>>
                            ELSE SubSeq(r.int, dotplace + 1, Len(r.int))
            IN  (IF r.sign = 1 THEN <<"-">> ELSE <<>>) \o Chars(intpart)
                \o (IF fracpart = <<>> THEN <<>> ELSE <<".">> \o Chars(fracpart))
      [] op = "FormatF" -> FixedPoint(DecRescale(x[1], -x[2]))

(***************************************************************************)
(* decimal_time/planet_profile.py and decimal_time/convert.py              *)
(***************************************************************************)
\* An absent value (None) is <<>>, a present value v is <<v>>.
None == <<>>

Some(v) == <<v>>

\* A Python number: its type, its exact value and the text str() gives it
Num(type, val) == [type |-> type, val |-> val, repr |-> val]

PyIntNum(n) == Num("int", DecOfInt(n))

\* PlanetProfile(...), after __post_init__ (the Decimal fields are given as
\* Decimals)
PlanetProfile(name, spd, year, offset, rule, rate) ==
    [planet_name          |-> name,
     seconds_per_ac       |-> spd,
     year_in_acs          |-> year,
     epoch_offset_seconds |-> offset,
     leap_rule            |-> rule,
     accumulator_rate     |-> rate]

EARTH_PROFILE ==
    PlanetProfile("Earth", Dec(0, <<8, 6, 4, 0, 0>>, 0), Dec(0, <<3, 6, 5, 2, 4, 2, 2>>, -4),
                  PyIntNum(0), "gregorian_earth", None)

MARS_PROFILE ==
    PlanetProfile("Mars", Dec(0, <<8, 8, 7, 7, 5, 2, 4, 4>>, -3),
                  Dec(0, <<6, 6, 8, 5, 9, 2, 1>>, -4),
                  PyIntNum(0), "accumulator", Some(Dec(0, <<5, 9, 2, 1>>, -4)))

\* ctx.prec of the local context of the converter and of the calendar
CTX_PREC == 50

One == Dec(0, <<1>>, 0)

\* DecimalTimeConverter.__init__: self.ac_len and self.epoch_offset
ac_len(p) == p.seconds_per_ac

epoch_offset(p) == p.epoch_offset_seconds.val

\* to_elapsed_seconds building the Decimal from the float itself
to_elapsed_seconds_of_double(p, unix_ts) == DecSub(unix_ts.val, epoch_offset(p), CTX_PREC)

\* DecimalTimeConverter.to_elapsed_seconds: a float goes through str()
to_elapsed_seconds(p, unix_ts) ==
    LET val == IF unix_ts.type = "float" THEN unix_ts.repr ELSE unix_ts.val
    IN  DecSub(val, epoch_offset(p), CTX_PREC)

\* what a call that raises leaves in place of its result
Raised == [ok |-> FALSE]

\* elapsed_to_ac_fraction, the two corrections that end it: a fraction
\* below 0 borrows a day, a fraction of 1 or more becomes 0 of the next day
fraction_wrapped(ac_count, fraction) ==
    LET over == DecCmp(fraction, One) >= 0
    IN  [ok       |-> TRUE,
         ac_count |-> IF over THEN DecAddExact(ac_count, One) ELSE ac_count,
         fraction |-> IF over THEN DecOfInt(0) ELSE fraction]

fraction_borrowed(ac_count, fraction) ==
    LET neg == DecCmp(fraction, DecOfInt(0)) < 0
    IN  fraction_wrapped(IF neg THEN DecAddExact(ac_count, DecOfInt(-1)) ELSE ac_count,
                         IF neg THEN DecAdd(fraction, One, CTX_PREC) ELSE fraction)

\* elapsed_to_ac_fraction after ac_count = int(elapsed_seconds // ac_len):
\* the remainder, and the fraction it is of a day, normalized
fraction_of_remainder(p, elapsed_seconds, ac_count) ==
    fraction_borrowed(
        ac_count,
        DecNormalize(
            DecDiv(DecSub(elapsed_seconds, DecMul(ac_count, ac_len(p), CTX_PREC), CTX_PREC),
                   ac_len(p), CTX_PREC),
            CTX_PREC))

\* DecimalTimeConverter.elapsed_to_ac_fraction.  The call raises
\* (decimal.InvalidOperation) when // cannot give its quotient.
elapsed_to_ac_fraction(p, elapsed_seconds) ==
    LET quot == DecFloorDiv(elapsed_seconds, ac_len(p), CTX_PREC)
    IN  IF DecIsZero(ac_len(p)) \/ ~quot.ok THEN Raised
        ELSE fraction_of_remainder(p, elapsed_seconds, DecToInt(quot.val))

\* to_decimal_display: MC, kC and C of total_C = int(frac * 10000)
composite(total_C) ==
    [MC |-> total_C \div 100, kC |-> (total_C % 100) \div 10, C |-> (total_C % 100) % 10]

\* to_decimal_display after its call r of elapsed_to_ac_fraction.  frac, the
\* fraction the display is made of, is kept beside the returned dictionary.
display(r, places) ==
    IF ~r.ok THEN Raised
    ELSE [ok           |-> TRUE,
          ac_count     |-> r.ac_count,
          frac         |-> r.fraction,
          fraction_str |-> FormatF(r.fraction, places),
          percent_str  |-> FormatF(DecMul(r.fraction, DecOfInt(100), CTX_PREC), places),
          composite    |-> composite(PyInt(DecToInt(DecMul(r.fraction, DecOfInt(10000),
                                                           CTX_PREC))))]

\* DecimalTimeConverter.to_decimal_display
to_decimal_display(p, unix_ts, places) ==
    display(elapsed_to_ac_fraction(p, to_elapsed_seconds(p, unix_ts)), places)

(***************************************************************************)
(* lib_deci_time/deci_time.py: DeciStruct.  Its properties compute in the  *)
(* decimal context of the caller, of precision prec.                       *)
(***************************************************************************)
mc(ac_fraction, prec) ==
    PyInt(DecFloor(DecMul(ac_fraction, DecOfInt(100), prec)))

kc(ac_fraction, prec) ==
    LET rem == DecSub(DecMul(ac_fraction, DecOfInt(100), prec),
                      DecOfInt(mc(ac_fraction, prec)), prec)
    IN  PyInt(DecFloor(DecMul(rem, DecOfInt(10), prec)))

c(ac_fraction, prec) ==
    PyInt(DecFloor(DecMod(DecMul(ac_fraction, DecOfInt(10000), prec), DecOfInt(10), prec)))

\* ctx.prec of the local context of DeciStruct.__repr__
REPR_PREC == 12

\* DeciStruct.__repr__: acf = +self.ac_fraction shown to 6 places, and mc,
\* kc and c as the properties compute them inside that context
DeciStruct_repr(ac_fraction) ==
    [ac |-> FormatF(DecFix(ac_fraction, REPR_PREC), 6),
     mc |-> mc(ac_fraction, REPR_PREC),
     kc |-> kc(ac_fraction, REPR_PREC),
     c  |-> c(ac_fraction, REPR_PREC)]

(***************************************************************************)
(* datetime.date, as decimal_time/calendar.py uses it: a civil date is a   *)
(* year MINYEAR..MAXYEAR, a month and a day, and counts its days from      *)
(* 0001-01-01, which is day 1.                                             *)
(***************************************************************************)
\* a result that was returned, and an exception that was raised
Ok(v) == [ok |-> TRUE, val |-> v]

Raise(exc, msg) == [ok |-> FALSE, exc |-> exc, msg |-> msg]

MINYEAR == 1

MAXYEAR == 9999

date(year, month, day) == [year |-> year, month |-> month, day |-> day]

\* the civil (proleptic Gregorian) leap years
CivilLeap(year) == year % 4 = 0 /\ (year % 100 # 0 \/ year % 400 = 0)

\* the number of days before January 1st of year
DaysBeforeYear(year) ==
    (year - 1) * 365 + (year - 1) \div 4 - (year - 1) \div 100 + (year - 1) \div 400

DAYS_IN_MONTH == <<31, 28, 31, 30, 31, 30, 31, 31, 30, 31, 30, 31>>

DaysInMonth(year, month) ==
    IF month = 2 /\ CivilLeap(year) THEN 29 ELSE DAYS_IN_MONTH[month]

DAYS_BEFORE_MONTH == <<0, 31, 59, 90, 120, 151, 181, 212, 243, 273, 304, 334>>

\* the number of days of year before the first of month
DaysBeforeMonth(year, month) ==
    DAYS_BEFORE_MONTH[month] + (IF month > 2 /\ CivilLeap(year) THEN 1 ELSE 0)

\* date.toordinal
toordinal(d) == DaysBeforeYear(d.year) + DaysBeforeMonth(d.year, d.month) + d.day

\* date.fromordinal, for an ordinal n of a date MINYEAR..MAXYEAR
YearOfOrdinal(n) ==
    CHOOSE y \in (n \div 366 + 1)..(n \div 365 + 1) :
        DaysBeforeYear(y) < n /\ n <= DaysBeforeYear(y + 1)

MonthOfYearDay(year, k) ==
    CHOOSE m \in 1..12 :
        DaysBeforeMonth(year, m) < k /\ k <= DaysBeforeMonth(year, m) + DaysInMonth(year, m)

DateOfYearDay(year, k) ==
    date(year, MonthOfYearDay(year, k), k - DaysBeforeMonth(year, MonthOfYearDay(year, k)))

fromordinal(n) == DateOfYearDay(YearOfOrdinal(n), n - DaysBeforeYear(YearOfOrdinal(n)))

\* date.max.toordinal()
MAXORDINAL == DaysBeforeYear(MAXYEAR + 1)

\* date(year, 1, 1) + timedelta(days=days): date() raises ValueError for a
\* year outside MINYEAR..MAXYEAR, + raises OverflowError past either end
new_year_plus_days(year, days) ==
    IF year < MINYEAR \/ year > MAXYEAR
    THEN Raise("ValueError", "year is out of range")
    ELSE IF DaysBeforeYear(year) + 1 + days < 1 \/ DaysBeforeYear(year) + 1 + days > MAXORDINAL
    THEN Raise("OverflowError", "date value out of range")
    ELSE Ok(fromordinal(DaysBeforeYear(year) + 1 + days))

(***************************************************************************)
(* decimal_time/calendar.py: DecimalSolarCalendar                          *)
(***************************************************************************)
\* [36, 37] * 5: the list of the class as the class statement leaves it
BASE_MONTH_LENGTHS == <<36, 37, 36, 37, 36, 37, 36, 37, 36, 37>>

\* the items of the list the attribute BASE_MONTH_LENGTHS of the class names
\* now: one list object, shared by every calendar
VARIABLE base_month_lengths

\* __init__ without its check of the rate
DecimalSolarCalendar_unchecked(leap_rule, accumulator_rate) ==
    Ok([leap_rule |-> leap_rule, accumulator_rate |-> accumulator_rate])

\* DecimalSolarCalendar(leap_rule, accumulator_rate): the fields __init__ sets
DecimalSolarCalendar(leap_rule, accumulator_rate) ==
    IF leap_rule = "accumulator" /\ accumulator_rate = None
    THEN Raise("ValueError", "accumulator_rate must be provided")
    ELSE Ok([leap_rule |-> leap_rule, accumulator_rate |-> accumulator_rate])

\* leaps_until with int() in the place of math.floor
leaps_until_truncated(year, rate) == PyInt(DecToInt(DecMul(DecOfInt(year), rate, CTX_PREC)))

\* math.floor(Decimal(year) * rate) in a context of precision 50
leaps_until(year, rate) == PyInt(DecFloor(DecMul(DecOfInt(year), rate, CTX_PREC)))

\* _is_leap with a leap year every fourth year, century or not
is_leap_every_fourth(self, year) == Ok(year % 4 = 0)

\* DecimalSolarCalendar._is_leap
is_leap(self, year) ==
    CASE self.leap_rule = "gregorian_earth" ->
            Ok(year % 4 = 0 /\ (year % 100 # 0 \/ year % 400 = 0))
      [] self.leap_rule = "accumulator" ->
            Ok(leaps_until(year, self.accumulator_rate[1])
               - leaps_until(year - 1, self.accumulator_rate[1]) = 1)
      [] self.leap_rule = "none" -> Ok(FALSE)
      [] OTHER -> Raise("ValueError", "Unknown leap rule")

\* the list itself under a second name, in the place of a copy of it
list_alias(items) == [shared |-> TRUE, items |-> items]

\* list.copy(): a list object of its own with the same items
list_copy(items) == [shared |-> FALSE, items |-> items]

\* lengths[-1] += 1
add_to_last(lengths) == [lengths EXCEPT !.items[Len(lengths.items)] = @ + 1]

\* get_month_lengths, the list `lengths` at its return, leap being what
\* _is_leap returned
lengths_at_return(leap) ==
    IF leap THEN add_to_last(list_copy(base_month_lengths))
    ELSE list_copy(base_month_lengths)

\* get_month_lengths after its call leap of _is_leap
lengths_for(leap) ==
    IF ~leap.ok THEN leap
    ELSE Ok(lengths_at_return(leap.val).items)

\* the items of the list of the class after get_month_lengths: the += writes
\* to that list only if `lengths` is the list itself
base_after(leap) ==
    IF leap.ok /\ lengths_at_return(leap.val).shared
    THEN lengths_at_return(leap.val).items
    ELSE base_month_lengths

\* the list of the class after a call of get_month_lengths
base_after_month_lengths(self, year) == base_after(is_leap(self, year))

\* the list of the class after a call of dsc_to_gregorian, which gets the
\* month lengths once the month is one of 1..10
base_after_dsc_to_gregorian(self, year, month) ==
    IF ~(1 <= month /\ month <= 10) THEN base_month_lengths
    ELSE base_after_month_lengths(self, year)

\* DecimalSolarCalendar.get_month_lengths
get_month_lengths(self, year) == lengths_for(is_leap(self, year))

RECURSIVE sum(_)
\* the builtin sum of a list of ints
sum(lengths) == IF lengths = <<>> THEN 0 ELSE lengths[1] + sum(Tail(lengths))

RECURSIVE walk_months(_, _, _, _, _)
\* gregorian_to_dsc, its loop from the month of index month_idx on
walk_months(year, lengths, day_of_year, month_idx, current_day_count) ==
    IF month_idx >= Len(lengths)
    THEN Raise("ValueError", "Date out of bounds")
    ELSE IF day_of_year <= current_day_count + lengths[month_idx + 1]
    THEN Ok(<<year, month_idx + 1, day_of_year - current_day_count>>)
    ELSE walk_months(year, lengths, day_of_year, month_idx + 1,
                     current_day_count + lengths[month_idx + 1])

\* gregorian_to_dsc after its call lengths of get_month_lengths
place_day(year, day_of_year, lengths) ==
    IF ~lengths.ok THEN lengths
    ELSE walk_months(year, lengths.val, day_of_year, 0, 0)

\* gregorian_to_dsc counting the days of the year from 0
gregorian_to_dsc_from_zero(self, g_date) ==
    place_day(g_date.year,
              toordinal(g_date) - toordinal(date(g_date.year, 1, 1)),
              get_month_lengths(self, g_date.year))

\* DecimalSolarCalendar.gregorian_to_dsc
gregorian_to_dsc(self, g_date) ==
    place_day(g_date.year,
              toordinal(g_date) - toordinal(date(g_date.year, 1, 1)) + 1,
              get_month_lengths(self, g_date.year))

\* dsc_to_gregorian after its month check and its call lengths of
\* get_month_lengths
date_of_day(year, month, day, lengths) ==
    IF ~lengths.ok THEN lengths
    ELSE IF ~(1 <= day /\ day <= lengths.val[month])
    THEN Raise("ValueError", "Day out of range")
    ELSE IF ~new_year_plus_days(year, 0).ok
    THEN Raise("ValueError", "Resulting date invalid")
    ELSE new_year_plus_days(year, sum(SubSeq(lengths.val, 1, month - 1)) + day - 1)

\* dsc_to_gregorian looking at the day before the month
dsc_to_gregorian_day_first(self, year, month, day) ==
    IF ~(1 <= day /\ day <= 38)
    THEN Raise("ValueError", "Day out of range")
    ELSE IF ~(1 <= month /\ month <= 10)
    THEN Raise("ValueError", "Month must be 1..10")
    ELSE date_of_day(year, month, day, get_month_lengths(self, year))

\* DecimalSolarCalendar.dsc_to_gregorian
dsc_to_gregorian(self, year, month, day) ==
    IF ~(1 <= month /\ month <= 10)
    THEN Raise("ValueError", "Month must be 1..10")
    ELSE date_of_day(year, month, day, get_month_lengths(self, year))

(***************************************************************************)
(* decimal_time/planet_profile.py: to_dict, from_dict, to_json, from_json. *)
(* A text is the sequence of its characters; the names and the leap rule   *)
(* of a profile are strings taken whole.                                   *)
(***************************************************************************)
\* the decimal digits of n >= 0 as characters
IntChars(n) == Chars(NatOfInt(n))

\* str(d) of a Decimal d, after its sign: Decimal.__str__ with the digits
\* left of the point dotplace and the exponent shown leftdigits - dotplace
str_at(int, leftdigits, dotplace) ==
    (IF dotplace <= 0 THEN <<"0", ".">> \o Chars(Zeros(-dotplace)) \o Chars(int)
     ELSE IF dotplace >= Len(int) THEN Chars(int) \o Chars(Zeros(dotplace - Len(int)))
     ELSE Chars(SubSeq(int, 1, dotplace)) \o <<".">>
          \o Chars(SubSeq(int, dotplace + 1, Len(int))))
    \o (IF leftdigits = dotplace THEN <<>>
        ELSE IF leftdigits > dotplace THEN <<"E", "+">> \o IntChars(leftdigits - dotplace)
        ELSE <<"E", "-">> \o IntChars(dotplace - leftdigits))

\* str(d) of a Decimal d
DecStr(d) ==
    (IF d.sign = 1 THEN <<"-">> ELSE <<>>)
    \o str_at(d.int, d.exp + Len(d.int),
              IF d.exp <= 0 /\ d.exp + Len(d.int) > -6 THEN d.exp + Len(d.int) ELSE 1)

\* the position of the first character of text that is in set, or 0
Find(text, set) ==
    IF \E i \in 1..Len(text) : text[i] \in set
    THEN CHOOSE i \in 1..Len(text) : text[i] \in set /\ \A j \in 1..(i - 1) : text[j] \notin set
    ELSE 0

IsDigits(text) == \A i \in 1..Len(text) : \E k \in 1..10 : DigitChars[k] = text[i]

\* the digits that the characters text show
DigitsOf(text) == [i \in 1..Len(text) |-> (CHOOSE k \in 1..10 : DigitChars[k] = text[i]) - 1]

\* text without a sign in front, and whether the sign was "-"
Unsigned(text) == IF text # <<>> /\ text[1] \in {"+", "-"} THEN Tail(text) ELSE text

IsMinus(text) == text # <<>> /\ text[1] = "-"

\* int(text) of an optional sign and digits
SignedInt(text) ==
    IF IsMinus(text) THEN -IntOfNat(DigitsOf(Unsigned(text)))
    ELSE IntOfNat(DigitsOf(Unsigned(text)))

\* Decimal(text), the parts of the text apart: the digits before and after
\* the point, and the exponent after its E (nothing without an exponent)
dec_of_parts(sign, intpart, fracpart, exptext) ==
    IF ~IsDigits(intpart \o fracpart) \/ intpart \o fracpart = <<>>
       \/ ~IsDigits(Unsigned(exptext)) \/ (exptext # <<>> /\ Unsigned(exptext) = <<>>)
    THEN Raise("InvalidOperation", "ConversionSyntax")
    ELSE Ok(Dec(sign, Strip(DigitsOf(intpart \o fracpart)),
                (IF exptext = <<>> THEN 0 ELSE SignedInt(exptext)) - Len(fracpart)))

\* Decimal(text) of a mantissa, the place of its point, and the exponent
dec_of_mantissa(sign, mantissa, dot, exptext) ==
    IF dot = 0 THEN dec_of_parts(sign, mantissa, <<>>, exptext)
    ELSE dec_of_parts(sign, SubSeq(mantissa, 1, dot - 1),
                      SubSeq(mantissa, dot + 1, Len(mantissa)), exptext)

\* Decimal(text) of a text without its sign, the place e of its E
dec_of_unsigned(sign, text, e) ==
    IF e = 0 THEN dec_of_mantissa(sign, text, Find(text, {"."}), <<>>)
    ELSE IF e = Len(text) THEN Raise("InvalidOperation", "ConversionSyntax")
    ELSE dec_of_mantissa(sign, SubSeq(text, 1, e - 1), Find(SubSeq(text, 1, e - 1), {"."}),
                         SubSeq(text, e + 1, Len(text)))

\* Decimal(text) of a finite number
DecParse(text) ==
    dec_of_unsigned(IF IsMinus(text) THEN 1 ELSE 0, Unsigned(text),
                    Find(Unsigned(text), {"E", "e"}))

\* Python values beside the numbers: None and a str (its text, or the
\* string taken whole)
PyNone == [type |-> "NoneType"]

PyStr(text) == [type |-> "str", val |-> text]

\* repr(x) of a float x
FloatRepr(x) ==
    IF Find(DecStr(x.repr), {"."}) = 0 THEN DecStr(x.repr) \o <<".", "0">>
    ELSE DecStr(x.repr)

\* str(n) of an int n
IntStr(n) == (IF n.val.sign = 1 THEN <<"-">> ELSE <<>>) \o Chars(n.val.int)

\* PlanetProfile.to_dict: asdict(self), the Decimal fields as str()
to_dict(self) ==
    [planet_name          |-> PyStr(self.planet_name),
     seconds_per_ac       |-> PyStr(DecStr(self.seconds_per_ac)),
     year_in_acs          |-> PyStr(DecStr(self.year_in_acs)),
     epoch_offset_seconds |-> self.epoch_offset_seconds,
     leap_rule            |-> PyStr(self.leap_rule),
     accumulator_rate     |-> IF self.accumulator_rate = None THEN PyNone
                              ELSE PyStr(DecStr(self.accumulator_rate[1]))]

\* json.dumps of one value: a JSON string of the same content, the text of
\* a number, or null; a Decimal is not JSON serializable
json_dumps_value(v) ==
    CASE v.type = "str"      -> Ok([json |-> "string", text |-> v.val])
      [] v.type = "int"      -> Ok([json |-> "number", text |-> IntStr(v)])
      [] v.type = "float"    -> Ok([json |-> "number", text |-> FloatRepr(v)])
      [] v.type = "NoneType" -> Ok([json |-> "null", text |-> <<"n", "u", "l", "l">>])
      [] OTHER -> Raise("TypeError", "Object is not JSON serializable")

\* json.dumps of a dict: the JSON object of its encoded values
json_dumps(data) ==
    IF \E k \in DOMAIN data : ~json_dumps_value(data[k]).ok
    THEN Raise("TypeError", "Object is not JSON serializable")
    ELSE Ok([k \in DOMAIN data |-> json_dumps_value(data[k]).val])

\* json.loads of one value: a number with a point or an exponent is a
\* float, any other number an int
json_loads_value(j) ==
    CASE j.json = "string" -> PyStr(j.text)
      [] j.json = "null"   -> PyNone
      [] j.json = "number" /\ Find(j.text, {".", "e", "E"}) # 0 ->
            Num("float", DecParse(j.text).val)
      [] OTHER -> Num("int", DecParse(j.text).val)

json_loads(json_str) == [k \in DOMAIN json_str |-> json_loads_value(json_str[k])]

\* PlanetProfile.to_json
to_json(self) == json_dumps(to_dict(self))

\* str(v) of a str or a number
py_str(v) ==
    CASE v.type = "str"   -> v.val
      [] v.type = "int"   -> IntStr(v)
      [] v.type = "float" -> FloatRepr(v)
      [] OTHER            -> DecStr(v.val)

\* int(v): the int itself, a float or Decimal truncated towards zero, the
\* int a str shows; TypeError for None
py_int(v) ==
    CASE v.type = "NoneType" -> Raise("TypeError", "int() argument")
      [] v.type = "str" ->
            IF IsDigits(Unsigned(v.val)) /\ Unsigned(v.val) # <<>>
            THEN Ok(Num("int", DecParse(v.val).val))
            ELSE Raise("ValueError", "invalid literal for int()")
      [] OTHER -> Ok(Num("int", DecToInt(v.val)))

\* bool(v)
py_bool(v) ==
    CASE v.type = "NoneType" -> FALSE
      [] v.type = "str"      -> v.val # <<>>
      [] OTHER               -> ~DecIsZero(v.val)

\* from_dict, the values of its keyword arguments computed
profile_of(planet_name, seconds_per_ac, year_in_acs, epoch_offset_seconds, leap_rule, accumulator_rate) ==
    IF ~seconds_per_ac.ok THEN seconds_per_ac
    ELSE IF ~year_in_acs.ok THEN year_in_acs
    ELSE IF ~epoch_offset_seconds.ok THEN epoch_offset_seconds
    ELSE IF ~accumulator_rate.ok THEN accumulator_rate
    ELSE Ok(PlanetProfile(planet_name.val, seconds_per_ac.val, year_in_acs.val,
                          epoch_offset_seconds.val, leap_rule.val,
                          accumulator_rate.val))

\* from_dict: Decimal(str(data['accumulator_rate'])) if the value is true
rate_of(v) ==
    IF ~py_bool(v) THEN Ok(None)
    ELSE IF ~DecParse(py_str(v)).ok THEN DecParse(py_str(v))
    ELSE Ok(Some(DecParse(py_str(v)).val))

\* PlanetProfile.from_dict
from_dict(data) ==
    profile_of(data.planet_name,
               DecParse(py_str(data.seconds_per_ac)),
               DecParse(py_str(data.year_in_acs)),
               py_int(data.epoch_offset_seconds),
               data.leap_rule,
               rate_of(data.accumulator_rate))

\* PlanetProfile.from_json
from_json(json_str) == from_dict(json_loads(json_str))

\* a == b of two numbers
num_eq(a, b) == DecCmp(a.val, b.val) = 0

\* p == q of two profiles: the == of dataclasses, field by field
profile_eq(p, q) ==
    /\ p.planet_name = q.planet_name
    /\ DecCmp(p.seconds_per_ac, q.seconds_per_ac) = 0
    /\ DecCmp(p.year_in_acs, q.year_in_acs) = 0
    /\ num_eq(p.epoch_offset_seconds, q.epoch_offset_seconds)
    /\ p.leap_rule = q.leap_rule
    /\ Len(p.accumulator_rate) = Len(q.accumulator_rate)
    /\ (p.accumulator_rate # None /\ q.accumulator_rate # None
        => DecCmp(p.accumulator_rate[1], q.accumulator_rate[1]) = 0)

(***************************************************************************)
(* The state: the profile a converter was built with, the calendar, the    *)
(* precision of the decimal context of the caller, the last call made (its *)
(* operation, its arguments and what it returned), and the calls of        *)
(* _is_leap made so far on the calendar, in their order; base_month_lengths *)
(* is declared with the calendar.                                          *)
(***************************************************************************)
VARIABLES profile, calendar, ambient_prec, call, leap_calls

vars == <<profile, calendar, ambient_prec, call, leap_calls, base_month_lengths>>

NoCall == [op |-> "none", arg |-> <<>>, ret |-> <<>>]

\* the profile of tests/test_decimal_time.py::test_planet_profile_integrity
TEST_PROFILE ==
    PlanetProfile("Test", DecOfInt(100), DecOfInt(100), PyIntNum(0), "accumulator",
                  Some(Dec(0, <<1>>, -1)))

\* getcontext().prec of a thread that never set it
DEFAULT_PREC == 28

(***************************************************************************)
(* The converter and DeciStruct: inputs and operations                     *)
(***************************************************************************)
MaxQuarters == 8

MaxSeconds == 3

MaxDisplayStep == 9

ConvProfiles == {EARTH_PROFILE, MARS_PROFILE, TEST_PROFILE}

Nines(n) == [i \in 1..n |-> 9]

\* elapsed seconds far beyond 10^50 days, and 51-digit multiples of seconds
HugeElapsed ==
    {Dec(0, <<1>>, 60),
     Dec(1, <<6,9,8,1,1,0,4,9,7,4,8,5,1,1,4,4,2,6,9,0,5,7,6,6,3,7,0,8,7,5,5,0,5,9,8,3,5,
               1,5,3,2,7,8,5,5,3,0,4,2,1,1,1,5,1,5>>, 0),
     Dec(0, <<6,9,8,1,1,0,4,9,7,4,8,5,1,1,4,4,2,6,9,0,5,7,6,6,3,7,0,8,7,5,5,0,5,9,8,3,5,
               1,5,3,2,7,8,5,5,3,0,4,2,1,1,1,5,1,5>>, 0)}

\* elapsed seconds closer to zero than the 50th digit of a day
TinyElapsed ==
    {Dec(sg, <<d>>, e) : sg \in {0, 1}, d \in {1, 5}, e \in {-47, -46}}

ElapsedInputs ==
    {DecOfInt(q * 21600) : q \in -MaxQuarters..MaxQuarters}
    \cup {DecOfInt(n) : n \in -MaxSeconds..MaxSeconds}
    \cup {Dec(sg, <<5>>, -1) : sg \in {0, 1}}
    \cup TinyElapsed \cup HugeElapsed

\* timestamps in thousandths of a second: on TEST_PROFILE k thousandths
\* are the fraction k / 100000 of a day
DisplayThousandths ==
    {0, 10, 50000, 54321} \cup (12340..12349) \cup (99990..99999)
    \cup {1111 * k : k \in 0..MaxDisplayStep}

DisplayTimestamps ==
    {Num("Decimal", Dec(0, NatOfInt(k), -3)) : k \in DisplayThousandths}
    \cup {PyIntNum(43200), PyIntNum(-1),
          Num("Decimal", Dec(0, <<1,0,6,6,9,5,3,6>>, -3)),
          Num("Decimal", Dec(0, <<4,6,9,3,3,3,4,4>>, -3)),
          Num("Decimal", Dec(0, <<8,6,3,9,9,9,9>>, -2))}

DisplayPlaces == {2, 4}

\* fractions of a day given to DeciStruct
StructFractions ==
    {Dec(0, NatOfInt(k), -5) : k \in DisplayThousandths}
    \cup {Dec(0, <<5>>, -1), Dec(0, <<9, 9, 9, 9>>, -4), Dec(0, <<1>>, -4),
          Dec(0, Nines(20), -20), Dec(0, Nines(30), -30),
          Dec(0, <<1, 2, 3, 4>> \o Nines(30), -34)}

\* the caller is done with the result of the last call
Return ==
    /\ call # NoCall
    /\ call' = NoCall
    /\ UNCHANGED <<profile, calendar, ambient_prec, leap_calls, base_month_lengths>>

CallElapsedToAcFraction ==
    /\ call = NoCall
    /\ \E e \in ElapsedInputs :
        /\ call' = [op  |-> "elapsed_to_ac_fraction",
                    arg |-> e,
                    ret |-> elapsed_to_ac_fraction(profile, e)]
        /\ UNCHANGED <<profile, calendar, ambient_prec, leap_calls, base_month_lengths>>

CallToDecimalDisplay ==
    /\ call = NoCall
    /\ \E ts \in DisplayTimestamps, places \in DisplayPlaces :
        /\ call' = [op  |-> "to_decimal_display",
                    arg |-> [unix_ts |-> ts, places |-> places],
                    ret |-> to_decimal_display(profile, ts, places)]
        /\ UNCHANGED <<profile, calendar, ambient_prec, leap_calls, base_month_lengths>>

\* DeciStruct(sc, day_of_year, f).mc, .kc and .c, read in the caller's context
ReadDeciStruct ==
    /\ call = NoCall
    /\ \E f \in StructFractions :
        /\ call' = [op  |-> "DeciStruct",
                    arg |-> f,
                    ret |-> [mc |-> mc(f, ambient_prec),
                             kc |-> kc(f, ambient_prec),
                             c  |-> c(f, ambient_prec)]]
        /\ UNCHANGED <<profile, calendar, ambient_prec, leap_calls, base_month_lengths>>

InitConv ==
    /\ profile \in ConvProfiles
    /\ calendar = DecimalSolarCalendar(profile.leap_rule, profile.accumulator_rate).val
    /\ ambient_prec = DEFAULT_PREC
    /\ call = NoCall
    /\ leap_calls = <<>>
    /\ base_month_lengths = BASE_MONTH_LENGTHS

NextConv == CallElapsedToAcFraction \/ CallToDecimalDisplay \/ ReadDeciStruct \/ Return

SpecConv == InitConv /\ [][NextConv]_vars

(***************************************************************************)
(* The calendar: inputs and operations                                     *)
(***************************************************************************)
YearSpan == 3

MaxLeapYear == 12

MaxLeapCalls == 2

\* the years of the tests and after, century years, and the first and the
\* last year of a civil date
CalYears == {MINYEAR, 1900, 2000, 2100, MAXYEAR} \cup {2023 + k : k \in 0..YearSpan}

\* every valid civil date of those years
CivilDates ==
    {d \in {date(y, m, dd) : y \in CalYears, m \in 1..12, dd \in 1..31} :
        d.day <= DaysInMonth(d.year, d.month)}

\* the rates of the tests and of MARS_PROFILE, no leap day at all, and one
\* every year
CalRates == {Dec(0, <<2, 5>>, -2), Dec(0, <<5, 9, 2, 1>>, -4), Dec(0, <<0>>, 0), Dec(0, <<1>>, 0)}

CalendarArgs ==
    ({"gregorian_earth", "accumulator", "none", "lunar"} \X {None})
    \cup ({"accumulator"} \X {Some(r) : r \in CalRates})

\* the calendars that can be constructed
Calendars ==
    {DecimalSolarCalendar(a[1], a[2]).val :
        a \in {a \in CalendarArgs : DecimalSolarCalendar(a[1], a[2]).ok}}

\* the components given to dsc_to_gregorian: years no civil date has, months
\* and days around the valid ones
DscYears == CalYears \cup {MINYEAR - 1, MAXYEAR + 1}

DscMonths == 0..11

DscDays == 0..39

LeapYears == (-4)..MaxLeapYear

CallGetMonthLengths ==
    /\ call = NoCall
    /\ \E year \in DscYears :
        /\ call' = [op  |-> "get_month_lengths",
                    arg |-> year,
                    ret |-> get_month_lengths(calendar, year)]
        /\ base_month_lengths' = base_after_month_lengths(calendar, year)
        /\ UNCHANGED <<profile, calendar, ambient_prec, leap_calls>>

CallGregorianToDsc ==
    /\ call = NoCall
    /\ \E g_date \in CivilDates :
        /\ call' = [op  |-> "gregorian_to_dsc",
                    arg |-> g_date,
                    ret |-> gregorian_to_dsc(calendar, g_date)]
        /\ base_month_lengths' = base_after_month_lengths(calendar, g_date.year)
        /\ UNCHANGED <<profile, calendar, ambient_prec, leap_calls>>

\* the caller gives dsc_to_gregorian what gregorian_to_dsc returned
CallDscToGregorianOfResult ==
    /\ call.op = "gregorian_to_dsc"
    /\ call.ret.ok
    /\ call' = [op  |-> "dsc_to_gregorian(*gregorian_to_dsc)",
                arg |-> call.arg,
                ret |-> dsc_to_gregorian(calendar, call.ret.val[1], call.ret.val[2],
                                         call.ret.val[3])]
    /\ base_month_lengths' = base_after_dsc_to_gregorian(calendar, call.ret.val[1], call.ret.val[2])
    /\ UNCHANGED <<profile, calendar, ambient_prec, leap_calls>>

CallDscToGregorian ==
    /\ call = NoCall
    /\ \E year \in DscYears, month \in DscMonths, day \in DscDays :
        /\ call' = [op  |-> "dsc_to_gregorian",
                    arg |-> <<year, month, day>>,
                    ret |-> dsc_to_gregorian(calendar, year, month, day)]
        /\ base_month_lengths' = base_after_dsc_to_gregorian(calendar, year, month)
        /\ UNCHANGED <<profile, calendar, ambient_prec, leap_calls>>

InitCal ==
    /\ profile = EARTH_PROFILE
    /\ calendar \in Calendars
    /\ ambient_prec = DEFAULT_PREC
    /\ call = NoCall
    /\ leap_calls = <<>>
    /\ base_month_lengths = BASE_MONTH_LENGTHS

NextCal ==
    \/ CallGetMonthLengths
    \/ CallGregorianToDsc
    \/ CallDscToGregorianOfResult
    \/ CallDscToGregorian
    \/ Return

SpecCal == InitCal /\ [][NextCal]_vars

\* one more call of _is_leap on the calendar
CallIsLeap ==
    /\ Len(leap_calls) < MaxLeapCalls
    /\ \E year \in LeapYears :
        /\ leap_calls' = Append(leap_calls, [year |-> year, ret |-> is_leap(calendar, year)])
        /\ UNCHANGED <<profile, calendar, ambient_prec, call, base_month_lengths>>

NextLeap == CallIsLeap

SpecLeap == InitCal /\ [][NextLeap]_vars

(***************************************************************************)
(* The profile and its serialization: inputs and operations                *)
(***************************************************************************)
MaxOffsetHalves == 3

\* 86400, 88775.244, 1E+2 and 100.0
SerialDecimals ==
    {EARTH_PROFILE.seconds_per_ac, MARS_PROFILE.seconds_per_ac, Dec(0, <<1>>, 2),
     Dec(0, <<1, 0, 0, 0>>, -1)}

\* epoch offsets: ints, the floats k / 2, and the Decimal 1.5
SerialOffsets ==
    {PyIntNum(n) : n \in {-3600, 0, 86400}}
    \cup {Num("float", Dec(IF k < 0 THEN 1 ELSE 0, NatOfInt(IF k < 0 THEN -5 * k ELSE 5 * k), -1)) :
            k \in (-MaxOffsetHalves)..MaxOffsetHalves}
    \cup {Num("Decimal", Dec(0, <<1, 5>>, -1))}

\* leap rules with their rates: without a rate, and accumulators of the rate
\* of MARS_PROFILE, of TEST_PROFILE, and of the rate 0
SerialRules ==
    {<<"gregorian_earth", None>>, <<"none", None>>,
     <<"accumulator", MARS_PROFILE.accumulator_rate>>,
     <<"accumulator", TEST_PROFILE.accumulator_rate>>,
     <<"accumulator", Some(Dec(0, <<0>>, 0))>>}

SerialProfiles ==
    {PlanetProfile(name, spd, EARTH_PROFILE.year_in_acs, offset, rr[1], rr[2]) :
        name \in {"Earth", "Test"}, spd \in SerialDecimals, offset \in SerialOffsets,
        rr \in SerialRules}

CallToDict ==
    /\ call = NoCall
    /\ call' = [op |-> "to_dict", arg |-> profile, ret |-> Ok(to_dict(profile))]
    /\ UNCHANGED <<profile, calendar, ambient_prec, leap_calls, base_month_lengths>>

\* the caller gives from_dict what to_dict returned
CallFromDictOfResult ==
    /\ call.op = "to_dict"
    /\ call' = [op |-> "from_dict(to_dict)", arg |-> profile, ret |-> from_dict(call.ret.val)]
    /\ UNCHANGED <<profile, calendar, ambient_prec, leap_calls, base_month_lengths>>

CallToJson ==
    /\ call = NoCall
    /\ call' = [op |-> "to_json", arg |-> profile, ret |-> to_json(profile)]
    /\ UNCHANGED <<profile, calendar, ambient_prec, leap_calls, base_month_lengths>>

\* the caller gives from_json what to_json returned
CallFromJsonOfResult ==
    /\ call.op = "to_json"
    /\ call.ret.ok
    /\ call' = [op |-> "from_json(to_json)", arg |-> profile, ret |-> from_json(call.ret.val)]
    /\ UNCHANGED <<profile, calendar, ambient_prec, leap_calls, base_month_lengths>>

InitProfile ==
    /\ profile \in SerialProfiles
    /\ calendar = DecimalSolarCalendar(profile.leap_rule, profile.accumulator_rate).val
    /\ ambient_prec = DEFAULT_PREC
    /\ call = NoCall
    /\ leap_calls = <<>>
    /\ base_month_lengths = BASE_MONTH_LENGTHS

NextProfile ==
    \/ CallToDict
    \/ CallFromDictOfResult
    \/ CallToJson
    \/ CallFromJsonOfResult
    \/ Return

SpecProfile == InitProfile /\ [][NextProfile]_vars

(***************************************************************************)
(* Construction of profiles: inputs and operations                         *)
(***************************************************************************)
\* __post_init__: Decimal(str(x)) of a field that is not a Decimal
as_decimal(v) == IF v.type = "Decimal" THEN v.val ELSE DecParse(py_str(v)).val

\* PlanetProfile(...): the generated __init__ stores the fields and
\* __post_init__ makes seconds_per_ac, year_in_acs and a given
\* accumulator_rate Decimals.  Nothing is compared with anything.
post_init(planet_name, seconds_per_ac, year_in_acs, epoch_offset_seconds, leap_rule, accumulator_rate) ==
    Ok(PlanetProfile(planet_name, as_decimal(seconds_per_ac), as_decimal(year_in_acs),
                     epoch_offset_seconds, leap_rule,
                     IF accumulator_rate.type = "NoneType" THEN None
                     ELSE Some(as_decimal(accumulator_rate))))

\* day lengths given to PlanetProfile: -86400, 0, -0, the int 0, the float
\* -1.5, and the day lengths of EARTH_PROFILE and TEST_PROFILE
NewDayLengths ==
    {Num("Decimal", Dec(1, <<8, 6, 4, 0, 0>>, 0)), Num("Decimal", Dec(0, <<0>>, 0)),
     Num("Decimal", Dec(1, <<0>>, 0)), PyIntNum(0), Num("float", Dec(1, <<1, 5>>, -1)),
     Num("Decimal", EARTH_PROFILE.seconds_per_ac), PyIntNum(100)}

\* leap rules given to PlanetProfile, with no rate, a Decimal rate and a float rate
NewRules ==
    {"gregorian_earth", "accumulator", "none", "lunar"}
    \X {PyNone, Num("Decimal", Dec(0, <<5>>, -1)), Num("float", Dec(0, <<2, 5>>, -2))}

\* the arguments of PlanetProfile: every day length under the default rule,
\* every rule for the day length of Earth
NewProfileArgs ==
    (NewDayLengths \X {<<"gregorian_earth", PyNone>>})
    \cup ({Num("Decimal", EARTH_PROFILE.seconds_per_ac)} \X NewRules)

\* the dicts given to from_dict: day lengths "-5", "0" and "86400", each rule
\* with no rate, the rates "0" and "0.5", and the int 0
NewDicts ==
    {[planet_name          |-> PyStr("X"),
      seconds_per_ac       |-> PyStr(spd),
      year_in_acs          |-> PyStr(<<"3", "6", "5">>),
      epoch_offset_seconds |-> PyIntNum(0),
      leap_rule            |-> PyStr(rule),
      accumulator_rate     |-> rate] :
        spd \in {<<"-", "5">>, <<"0">>, <<"8", "6", "4", "0", "0">>},
        rule \in {"gregorian_earth", "accumulator", "none"},
        rate \in {PyNone, PyStr(<<"0">>), PyStr(<<"0", ".", "5">>), PyIntNum(0)}}

\* p = PlanetProfile(name, seconds_per_ac, year_in_acs, 0, leap_rule, rate)
NewPlanetProfile ==
    /\ call = NoCall
    /\ \E a \in NewProfileArgs :
        /\ call' = [op  |-> "PlanetProfile",
                    arg |-> a,
                    ret |-> post_init("X", a[1], Num("Decimal", EARTH_PROFILE.year_in_acs),
                                      PyIntNum(0), a[2][1], a[2][2])]
        /\ profile' = IF call'.ret.ok THEN call'.ret.val ELSE profile
    /\ UNCHANGED <<calendar, ambient_prec, leap_calls, base_month_lengths>>

\* p = PlanetProfile.from_dict(data)
NewFromDict ==
    /\ call = NoCall
    /\ \E data \in NewDicts :
        /\ call' = [op |-> "from_dict", arg |-> data, ret |-> from_dict(data)]
        /\ profile' = IF call'.ret.ok THEN call'.ret.val ELSE profile
    /\ UNCHANGED <<calendar, ambient_prec, leap_calls, base_month_lengths>>

InitNewProfile ==
    /\ profile = EARTH_PROFILE
    /\ calendar = DecimalSolarCalendar(profile.leap_rule, profile.accumulator_rate).val
    /\ ambient_prec = DEFAULT_PREC
    /\ call = NoCall
    /\ leap_calls = <<>>
    /\ base_month_lengths = BASE_MONTH_LENGTHS

NextNewProfile == NewPlanetProfile \/ NewFromDict \/ CallElapsedToAcFraction \/ Return

SpecNewProfile == InitNewProfile /\ [][NextNewProfile]_vars

(***************************************************************************)
(* Construction of calendars: inputs and operations                        *)
(***************************************************************************)
\* cal = DecimalSolarCalendar(leap_rule, accumulator_rate)
NewDecimalSolarCalendar ==
    /\ call = NoCall
    /\ \E a \in CalendarArgs :
        /\ call' = [op  |-> "DecimalSolarCalendar",
                    arg |-> a,
                    ret |-> DecimalSolarCalendar(a[1], a[2])]
        /\ calendar' = IF call'.ret.ok THEN call'.ret.val ELSE calendar
    /\ UNCHANGED <<profile, ambient_prec, leap_calls, base_month_lengths>>

\* the calendar of the default arguments
InitNewCal ==
    /\ profile = EARTH_PROFILE
    /\ calendar = [leap_rule |-> "gregorian_earth", accumulator_rate |-> None]
    /\ ambient_prec = DEFAULT_PREC
    /\ call = NoCall
    /\ leap_calls = <<>>
    /\ base_month_lengths = BASE_MONTH_LENGTHS

NextNewCal ==
    \/ NewDecimalSolarCalendar
    \/ CallGetMonthLengths
    \/ CallGregorianToDsc
    \/ CallDscToGregorian
    \/ Return

SpecNewCal == InitNewCal /\ [][NextNewCal]_vars

(***************************************************************************)
(* to_elapsed_seconds, and the conversions of the converter and of the     *)
(* calendar together: inputs and operations                                *)
(***************************************************************************)
\* a float: the value of the binary double and the digits repr() shows
PyFloat(val, repr) == [type |-> "float", val |-> val, repr |-> repr]

\* the floats 12345.6789, 0.1, 1700000000.123456, 1.5 and -2.25
FloatTimestamps ==
    {PyFloat(Dec(0, <<1,2,3,4,5,6,7,8,9,0,0,0,0,0,0,0,0,7,9,4,5,3,4,5,7,1,4,6,8,8,3,0,1,0,
                      8,6,4,2,5,7,8,1,2,5>>, -39),
             Dec(0, <<1,2,3,4,5,6,7,8,9>>, -4)),
     PyFloat(Dec(0, <<1,0,0,0,0,0,0,0,0,0,0,0,0,0,0,0,0,5,5,5,1,1,1,5,1,2,3,1,2,5,7,8,2,7,
                      0,2,1,1,8,1,5,8,3,4,0,4,5,4,1,0,1,5,6,2,5>>, -55),
             Dec(0, <<1>>, -1)),
     PyFloat(Dec(0, <<1,7,0,0,0,0,0,0,0,0,1,2,3,4,5,6,0,0,1,2,8,1,7,3,8,2,8,1,2,5>>, -20),
             Dec(0, <<1,7,0,0,0,0,0,0,0,0,1,2,3,4,5,6>>, -6)),
     Num("float", Dec(0, <<1, 5>>, -1)),
     Num("float", Dec(1, <<2, 2, 5>>, -2))}

\* ints: quarters of a day, and 10^51 + 1
IntTimestamps ==
    {PyIntNum(q * 21600) : q \in -MaxQuarters..MaxQuarters}
    \cup {Num("int", Dec(0, <<1>> \o Zeros(50) \o <<1>>, 0))}

\* Decimals: 12345.6789, 0.5, -129600.25, 1E-50, 1E+60, and one of 55 digits
DecimalTimestamps ==
    {Num("Decimal", d) :
        d \in {Dec(0, <<1,2,3,4,5,6,7,8,9>>, -4), Dec(0, <<5>>, -1),
               Dec(1, <<1,2,9,6,0,0,2,5>>, -2), Dec(0, <<1>>, -50), Dec(0, <<1>>, 60),
               Dec(0, <<1,2,3,4,5>> \o Nines(50), -50)}}

Timestamps == FloatTimestamps \cup IntTimestamps \cup DecimalTimestamps

\* Earth with its epoch at 0, an hour before, a second before, a day after,
\* and at 1700000000
EpochProfiles ==
    {PlanetProfile("Earth", EARTH_PROFILE.seconds_per_ac, EARTH_PROFILE.year_in_acs,
                   PyIntNum(offset), "gregorian_earth", None) :
        offset \in {0, -3600, -1, 86400, 1700000000}}

CallToElapsedSeconds ==
    /\ call = NoCall
    /\ \E ts \in Timestamps :
        /\ call' = [op  |-> "to_elapsed_seconds",
                    arg |-> ts,
                    ret |-> to_elapsed_seconds(profile, ts)]
        /\ UNCHANGED <<profile, calendar, ambient_prec, leap_calls, base_month_lengths>>

InitElapsed ==
    /\ profile \in EpochProfiles
    /\ calendar = DecimalSolarCalendar(profile.leap_rule, profile.accumulator_rate).val
    /\ ambient_prec = DEFAULT_PREC
    /\ call = NoCall
    /\ leap_calls = <<>>
    /\ base_month_lengths = BASE_MONTH_LENGTHS

NextElapsed == CallToElapsedSeconds \/ Return

SpecElapsed == InitElapsed /\ [][NextElapsed]_vars

\* a converter and the calendar of its profile, used one call after another
NextFrame ==
    \/ CallToElapsedSeconds
    \/ CallElapsedToAcFraction
    \/ CallToDecimalDisplay
    \/ CallGetMonthLengths
    \/ CallGregorianToDsc
    \/ CallDscToGregorian
    \/ Return

SpecFrame == InitConv /\ [][NextFrame]_vars

(***************************************************************************)
(* The decimal context of the caller: inputs and operations                *)
(***************************************************************************)
\* getcontext().prec of the caller: the default, or 50 set by the caller
AmbientPrecs == {DEFAULT_PREC, CTX_PREC}

\* repr(DeciStruct(sc, day_of_year, f))
ReprDeciStruct ==
    /\ call = NoCall
    /\ \E f \in StructFractions :
        /\ call' = [op |-> "repr(DeciStruct)", arg |-> f, ret |-> DeciStruct_repr(f)]
        /\ UNCHANGED <<profile, calendar, ambient_prec, leap_calls, base_month_lengths>>

InitContext ==
    /\ profile \in ConvProfiles
    /\ calendar = DecimalSolarCalendar(profile.leap_rule, profile.accumulator_rate).val
    /\ ambient_prec \in AmbientPrecs
    /\ call = NoCall
    /\ leap_calls = <<>>
    /\ base_month_lengths = BASE_MONTH_LENGTHS

NextContext ==
    \/ CallToElapsedSeconds
    \/ CallElapsedToAcFraction
    \/ CallToDecimalDisplay
    \/ ReadDeciStruct
    \/ ReprDeciStruct
    \/ Return

SpecContext == InitContext /\ [][NextContext]_vars

(***************************************************************************)
(* The accumulator rule over consecutive years: inputs and operations      *)
(***************************************************************************)
MaxWindow == 4

\* the rates of the calendars above, Decimal(1) / Decimal(3) as 50 digits
\* give it, and 1 - 10^-50
WindowRates ==
    CalRates \cup {Dec(0, [i \in 1..50 |-> 3], -50), Dec(0, Nines(50), -50)}

\* the first year asked about
WindowStarts == {1, 4, 32, 100, 2024}

\* _is_leap of the first year of a window, or of the year after the last one
\* asked about
CallIsLeapOfNextYear ==
    /\ Len(leap_calls) < MaxWindow
    /\ \E year \in (IF leap_calls = <<>> THEN WindowStarts
                    ELSE {leap_calls[Len(leap_calls)].year + 1}) :
        /\ leap_calls' = Append(leap_calls, [year |-> year, ret |-> is_leap(calendar, year)])
        /\ UNCHANGED <<profile, calendar, ambient_prec, call, base_month_lengths>>

InitWindow ==
    /\ profile = MARS_PROFILE
    /\ calendar \in {DecimalSolarCalendar("accumulator", Some(r)).val : r \in WindowRates}
    /\ ambient_prec = DEFAULT_PREC
    /\ call = NoCall
    /\ leap_calls = <<>>
    /\ base_month_lengths = BASE_MONTH_LENGTHS

NextWindow == CallIsLeapOfNextYear

SpecWindow == InitWindow /\ [][NextWindow]_vars

(***************************************************************************)
(* lib_deci_time/deci_time.py: gmtime.  The module has a PlanetProfile of  *)
(* its own, of a name, the length of the day and a decimal context; a      *)
(* datetime is a civil date in UTC with its hour, minute, second and       *)
(* microsecond.  The operators given a computed value are declared         *)
(* RECURSIVE, which has TLC evaluate their arguments once.                 *)
(***************************************************************************)
\* ctx.prec of _GLOBAL_CTX, the context a profile has by default
GLOBAL_CTX_PREC == 50

AC_SECONDS_EARTH == Dec(0, <<8, 6, 4, 0, 0>>, 0)

\* PlanetProfile(name, seconds_per_ac, ctx) of lib_deci_time, after
\* __post_init__; prec is ctx.prec
DeciProfile(name, seconds_per_ac, prec) ==
    [name |-> name, seconds_per_ac |-> seconds_per_ac, ctx |-> [prec |-> prec]]

EARTH == DeciProfile("Earth", AC_SECONDS_EARTH, GLOBAL_CTX_PREC)

DeciStruct(sc, day_of_year, ac_fraction) ==
    [sc |-> sc, day_of_year |-> day_of_year, ac_fraction |-> ac_fraction]

datetime(d, hour, minute, second, microsecond) ==
    [year |-> d.year, month |-> d.month, day |-> d.day,
     hour |-> hour, minute |-> minute, second |-> second, microsecond |-> microsecond]

\* _to_decimal_seconds of given seconds: a Decimal as it is, an int or a
\* float through str()
to_decimal_seconds(seconds_input) ==
    IF seconds_input.type = "Decimal" THEN seconds_input.val ELSE seconds_input.repr

\* Decimal.to_integral_value(rounding=ROUND_HALF_UP)
RECURSIVE to_integral_half_up(_)
to_integral_half_up(d) ==
    LET n    == Len(d.int)
        kept == IF n + d.exp > 0 THEN SubSeq(d.int, 1, n + d.exp) ELSE <<0>>
        up   == n + d.exp >= 0 /\ d.int[n + d.exp + 1] >= 5
    IN  IF d.exp >= 0 THEN d
        ELSE Dec(d.sign, IF up THEN NatAdd(kept, <<1>>) ELSE kept, 0)

Million == Dec(0, <<1, 0, 0, 0, 0, 0, 0>>, 0)

\* datetime.datetime.fromtimestamp(sec_int, tz=datetime.timezone.utc) of a
\* Python int: the day is the floor of sec_int / 86400 counted from
\* 1970-01-01, and a day outside the years MINYEAR..MAXYEAR raises (a
\* ValueError up to some 10^16 seconds, as here; further out the platform
\* reports an OSError or an OverflowError)
RECURSIVE fromtimestamp(_)
fromtimestamp(sec_int) ==
    LET dm   == NatDivMod(sec_int.int, AC_SECONDS_EARTH.int)
        q    == IntOfNat(dm.q)
        r    == IntOfNat(dm.r)
        back == sec_int.sign = 1 /\ r # 0
        days == IF sec_int.sign = 1 THEN (IF r = 0 THEN -q ELSE -q - 1) ELSE q
        secs == IF back THEN 86400 - r ELSE r
        n    == toordinal(date(1970, 1, 1)) + days
    IN  IF Len(dm.q) > 7 \/ n < 1 \/ n > MAXORDINAL
        THEN Raise("ValueError", "year is out of range")
        ELSE Ok(datetime(fromordinal(n), secs \div 3600, (secs % 3600) \div 60, secs % 60, 0))

\* dt.replace(microsecond=micros) of what fromtimestamp returned: it raises
\* outside 0..999999
RECURSIVE replace_microsecond(_, _)
replace_microsecond(dt, micros) ==
    IF ~dt.ok THEN dt
    ELSE IF micros < 0 \/ micros > 999999
    THEN Raise("ValueError", "microsecond must be in 0..999999")
    ELSE Ok([dt.val EXCEPT !.microsecond = micros])

\* _timestamp_to_datetime from sec_int on: the rest of ts is rounded to
\* microseconds
RECURSIVE datetime_of_seconds(_, _, _)
datetime_of_seconds(ts, sec_int, prec) ==
    replace_microsecond(
        fromtimestamp(sec_int),
        PyInt(DecToInt(to_integral_half_up(DecMul(DecSub(ts, sec_int, prec), Million, prec)))))

\* _timestamp_to_datetime(ts, tz=datetime.timezone.utc), in the decimal
\* context of the caller, of precision prec: ts // 1 and int() truncate
\* towards zero
timestamp_to_datetime(ts, prec) ==
    LET whole == DecFloorDiv(ts, One, prec)
    IN  IF ~whole.ok THEN Raise("InvalidOperation", "DivisionImpossible")
        ELSE datetime_of_seconds(ts, DecToInt(whole.val), prec)

\* dt.timetuple().tm_yday
tm_yday(dt) == toordinal(date(dt.year, dt.month, dt.day)) - toordinal(date(dt.year, 1, 1)) + 1

\* the two clamps that end _datetime_to_decistruct
RECURSIVE clamp(_, _)
clamp(frac, prec) ==
    LET below_one == IF DecCmp(frac, One) >= 0
                     THEN DecSub(One, Dec(0, <<1>>, -20), prec)
                     ELSE frac
    IN  IF DecCmp(below_one, Dec(0, <<0>>, 0)) < 0 THEN Dec(0, <<0>>, 0) ELSE below_one

\* _datetime_to_decistruct(dt, profile), in localcontext(profile.ctx); the
\* division raises for a day of no seconds
RECURSIVE datetime_to_decistruct(_, _)
datetime_to_decistruct(dt, prof) ==
    LET prec           == prof.ctx.prec
        secs_whole     == DecOfInt(dt.hour * 3600 + dt.minute * 60 + dt.second)
        micros         == DecDiv(DecOfInt(dt.microsecond), Million, prec)
        seconds_in_day == DecAdd(secs_whole, micros, prec)
    IN  IF DecIsZero(prof.seconds_per_ac)
        THEN (IF DecIsZero(seconds_in_day)
              THEN Raise("InvalidOperation", "DivisionUndefined")
              ELSE Raise("DivisionByZero", "DivisionByZero"))
        ELSE Ok(DeciStruct(dt.year, tm_yday(dt),
                           clamp(DecDiv(seconds_in_day, prof.seconds_per_ac, prec), prec)))

\* gmtime(seconds, profile) of given seconds, called in a decimal context of
\* precision prec
gmtime(seconds, prof, prec) ==
    LET dt == timestamp_to_datetime(to_decimal_seconds(seconds), prec)
    IN  IF ~dt.ok THEN dt ELSE datetime_to_decistruct(dt.val, prof)

(***************************************************************************)
(* gmtime: inputs and operations                                           *)
(***************************************************************************)
\* Earth, Mars, a day of 40000 seconds, the same day with a context of 10
\* digits, and a day of no seconds
GmProfiles ==
    {EARTH,
     DeciProfile("Mars", Dec(0, <<8, 8, 7, 7, 5, 2, 4, 4>>, -3), GLOBAL_CTX_PREC),
     DeciProfile("Short", Dec(0, <<4>>, 4), GLOBAL_CTX_PREC),
     DeciProfile("Short", Dec(0, <<4>>, 4), 10),
     DeciProfile("Still", Dec(0, <<0>>, 0), GLOBAL_CTX_PREC)}

\* ints: quarters of a day around the epoch, the second before the epoch and
\* the one before its first midnight, noon of 2024-02-29, and the first and
\* the last second of the years 1 to 9999 with the seconds next to them
GmInts ==
    {PyIntNum(q * 21600) : q \in -MaxQuarters..MaxQuarters}
    \cup {PyIntNum(-1), PyIntNum(86399), PyIntNum(1709208000)}
    \cup {Num("int", Dec(1, <<6,2,1,3,5,5,9,6,8,0,0>>, 0)),
          Num("int", Dec(1, <<6,2,1,3,5,5,9,6,8,0,1>>, 0)),
          Num("int", Dec(0, <<2,5,3,4,0,2,3,0,0,7,9,9>>, 0)),
          Num("int", Dec(0, <<2,5,3,4,0,2,3,0,0,8,0,0>>, 0))}

\* the floats 0.5, -0.5, -1234.75, 1709208000.0, 1700000000.123456,
\* 0.9999999 and 86399.9999996
GmFloats ==
    {Num("float", Dec(0, <<5>>, -1)),
     Num("float", Dec(1, <<5>>, -1)),
     Num("float", Dec(1, <<1,2,3,4,7,5>>, -2)),
     PyFloat(Dec(0, <<1,7,0,9,2,0,8,0,0,0>>, 0), Dec(0, <<1,7,0,9,2,0,8,0,0,0,0>>, -1)),
     PyFloat(Dec(0, <<1,7,0,0,0,0,0,0,0,0,1,2,3,4,5,6,0,0,1,2,8,1,7,3,8,2,8,1,2,5>>, -20),
             Dec(0, <<1,7,0,0,0,0,0,0,0,0,1,2,3,4,5,6>>, -6)),
     PyFloat(Dec(0, <<9,9,9,9,9,9,9,0,0,0,0,0,0,0,0,0,5,2,6,3,5,5,8,4,7,7,9,6,3,6,7,0,1,5,6,
                      8,9,6,1,1,4,3,4,9,3,6,5,2,3,4,3,7,5>>, -53),
             Dec(0, <<9,9,9,9,9,9,9>>, -7)),
     PyFloat(Dec(0, <<8,6,3,9,9,9,9,9,9,9,9,5,9,9,9,9,6,9,5,4,2,0,2,6,5,1,9,7,7,5,3,9,0,6,2,
                      5>>, -31),
             Dec(0, <<8,6,3,9,9,9,9,9,9,9,9,6>>, -7))}

\* the Decimals 12345.6789, 0.9999995, 4E-7, -1E-7, -1.5, -86400.000, 1E+3
\* and 1E+60
GmDecimals ==
    {Num("Decimal", d) :
        d \in {Dec(0, <<1,2,3,4,5,6,7,8,9>>, -4), Dec(0, <<9,9,9,9,9,9,5>>, -7),
               Dec(0, <<4>>, -7), Dec(1, <<1>>, -7), Dec(1, <<1, 5>>, -1),
               Dec(1, <<8,6,4,0,0,0,0,0>>, -3), Dec(0, <<1>>, 3), Dec(0, <<1>>, 60)}}

GmTimestamps == GmInts \cup GmFloats \cup GmDecimals

CallGmtime ==
    /\ call = NoCall
    /\ \E seconds \in GmTimestamps :
        /\ call' = [op  |-> "gmtime",
                    arg |-> seconds,
                    ret |-> gmtime(seconds, profile, ambient_prec)]
        /\ UNCHANGED <<profile, calendar, ambient_prec, leap_calls, base_month_lengths>>

InitGmtime ==
    /\ profile \in GmProfiles
    /\ calendar = DecimalSolarCalendar("gregorian_earth", None).val
    /\ ambient_prec \in {DEFAULT_PREC, GLOBAL_CTX_PREC}
    /\ call = NoCall
    /\ leap_calls = <<>>
    /\ base_month_lengths = BASE_MONTH_LENGTHS

NextGmtime == CallGmtime \/ Return

SpecGmtime == InitGmtime /\ [][NextGmtime]_vars

(***************************************************************************)
(* dsc_to_gregorian and gregorian_to_dsc of what it returned: operations   *)
(***************************************************************************)
\* the caller gives gregorian_to_dsc the date dsc_to_gregorian returned
CallGregorianToDscOfResult ==
    /\ call.op = "dsc_to_gregorian"
    /\ call.ret.ok
    /\ call' = [op  |-> "gregorian_to_dsc(dsc_to_gregorian)",
                arg |-> call.arg,
                ret |-> gregorian_to_dsc(calendar, call.ret.val)]
    /\ base_month_lengths' = base_after_month_lengths(calendar, call.ret.val.year)
    /\ UNCHANGED <<profile, calendar, ambient_prec, leap_calls>>

NextInverse ==
    \/ CallDscToGregorian
    \/ CallGregorianToDscOfResult
    \/ Return

SpecInverse == InitCal /\ [][NextInverse]_vars

(***************************************************************************)
(* Properties of the converter and of DeciStruct, under SpecConv           *)
(***************************************************************************)
\* a * b, exactly
ExactMul(a, b) == DecMul(a, b, 400)

\* a - b, exactly
ExactSub(a, b) == DecAddExact(a, DecNeg(b))

\* n is the mathematical floor of e / len, for len > 0
IsFloorOf(n, e, len) ==
    /\ DecCmp(ExactMul(n, len), e) <= 0
    /\ DecCmp(e, ExactMul(DecAddExact(n, One), len)) < 0

\* f is (e - n * len) / len to 49 places: f * len is within len * 10^-49 of
\* the exact remainder
IsFractionOf(f, n, e, len) ==
    /\ DecCmp(ExactSub(ExactMul(f, len), ExactSub(e, ExactMul(n, len))),
              ExactMul(len, Dec(0, <<1>>, -49))) <= 0
    /\ DecCmp(ExactSub(ExactSub(e, ExactMul(n, len)), ExactMul(f, len)),
              ExactMul(len, Dec(0, <<1>>, -49))) <= 0

\* 0 <= f < 1
InUnitInterval(f) == DecCmp(f, DecOfInt(0)) >= 0 /\ DecCmp(f, One) < 0

\* floor(f * 10000) for f >= 0, read off the digits of f
TenThousandths(f) ==
    IF f.exp + 4 >= 0 THEN IntOfNat(f.int \o Zeros(f.exp + 4))
    ELSE IF Len(f.int) + f.exp + 4 <= 0 THEN 0
    ELSE IntOfNat(SubSeq(f.int, 1, Len(f.int) + f.exp + 4))

\* C2: elapsed_to_ac_fraction returns, for every elapsed_seconds of either
\* sign, the day index floor(elapsed_seconds / seconds_per_ac), in the
\* mathematical sense, and the fraction (elapsed_seconds - day_index *
\* seconds_per_ac) / seconds_per_ac.
C2_DayIndexIsFloor ==
    call.op = "elapsed_to_ac_fraction" =>
        /\ call.ret.ok
        /\ IsFloorOf(call.ret.ac_count, call.arg, ac_len(profile))
        /\ IsFractionOf(call.ret.fraction, call.ret.ac_count, call.arg, ac_len(profile))

\* C3: whatever the sign of elapsed_seconds, the fraction that
\* elapsed_to_ac_fraction returns satisfies 0 <= fraction < 1.
C3_FractionInUnitInterval ==
    call.op = "elapsed_to_ac_fraction" /\ call.ret.ok => InUnitInterval(call.ret.fraction)

\* C4: for a fraction in [0, 1) the composite of to_decimal_display and
\* DeciStruct.mc, .kc and .c are the digits of T = floor(fraction * 10000):
\* T div 100, (T mod 100) div 10 and T mod 10, by truncation, never rounding.
C4_CompositeByTruncation ==
    /\ call.op = "to_decimal_display" /\ call.ret.ok /\ InUnitInterval(call.ret.frac) =>
          call.ret.composite = [MC |-> TenThousandths(call.ret.frac) \div 100,
                                kC |-> (TenThousandths(call.ret.frac) % 100) \div 10,
                                C  |-> TenThousandths(call.ret.frac) % 10]
    /\ call.op = "DeciStruct" /\ InUnitInterval(call.arg) =>
          call.ret = [mc |-> TenThousandths(call.arg) \div 100,
                      kc |-> (TenThousandths(call.arg) % 100) \div 10,
                      c  |-> TenThousandths(call.arg) % 10]

\* C5: for a fraction in [0, 1) the percent string of to_decimal_display at
\* 2 places reads <MC>.<kC><C>, the composite of the same call: it is never
\* rounded up past the composite digits.
C5_PercentMatchesComposite ==
    call.op = "to_decimal_display" /\ call.arg.places = 2 /\ call.ret.ok
    /\ InUnitInterval(call.ret.frac) =>
        call.ret.percent_str = IntChars(call.ret.composite.MC) \o <<".">>
                               \o IntChars(call.ret.composite.kC)
                               \o IntChars(call.ret.composite.C)

(***************************************************************************)
(* Properties of the calendar, under SpecCal and SpecLeap                  *)
(***************************************************************************)
FixedGregorian == calendar.leap_rule = "gregorian_earth"

KnownRule == calendar.leap_rule \in {"gregorian_earth", "accumulator", "none"}

\* the number of days of the civil year
CivilYearLength(year) == toordinal(date(year, 12, 31)) - toordinal(date(year, 1, 1)) + 1

\* C1: on a calendar of the FixedGregorian rule, gregorian_to_dsc places
\* every valid civil date d, and dsc_to_gregorian of the (year, month, day)
\* it returned is exactly d.
C1_RoundTrip ==
    /\ call.op = "gregorian_to_dsc" /\ FixedGregorian => call.ret.ok
    /\ call.op = "dsc_to_gregorian(*gregorian_to_dsc)" /\ FixedGregorian =>
          call.ret = Ok(call.arg)

\* the last day of a leap year has gone there and back
C1_Witness ==
    /\ call.op = "dsc_to_gregorian(*gregorian_to_dsc)"
    /\ FixedGregorian
    /\ call.arg = date(2024, 12, 31)
    /\ call.ret = Ok(date(2024, 12, 31))

\* C6: under the FixedGregorian rule the month lengths of a year sum to the
\* number of days of that civil year, and month 10 has 38 days exactly when
\* year % 4 = 0 and (year % 100 # 0 or year % 400 = 0), 37 days otherwise;
\* the other months keep their base lengths.
C6_FixedGregorianLeap ==
    call.op = "get_month_lengths" /\ FixedGregorian
    /\ call.arg \in MINYEAR..MAXYEAR =>
        /\ call.ret.ok
        /\ Len(call.ret.val) = 10
        /\ sum(call.ret.val) = CivilYearLength(call.arg)
        /\ call.ret.val[10] =
              (IF call.arg % 4 = 0 /\ (call.arg % 100 # 0 \/ call.arg % 400 = 0)
               THEN 38 ELSE 37)
        /\ \A i \in 1..9 : call.ret.val[i] = (IF i % 2 = 1 THEN 36 ELSE 37)

\* the leap year 2024 has 38 days in its month 10
C6_Witness ==
    /\ call.op = "get_month_lengths"
    /\ FixedGregorian
    /\ call.arg = 2024
    /\ call.ret.ok
    /\ call.ret.val[10] = 38

\* floor(year * rate), for a rate of no positive exponent, in integers
FloorOfProduct(year, rate) ==
    ((IF rate.sign = 1 THEN -1 ELSE 1) * year * IntOfNat(rate.int))
    \div IntOfNat(<<1>> \o Zeros(-rate.exp))

DayOfYear(lengths, month, day) == sum(SubSeq(lengths, 1, month - 1)) + day

\* C8, as written: dsc_to_gregorian(year, month, day) fails with the month
\* error when month is outside 1..10, fails with the day error when day is
\* outside 1..get_month_lengths(year)[month - 1], and otherwise returns
\* January 1st of the year plus (the lengths of the preceding months + day
\* - 1) days.
C8_AsWritten ==
    call.op = "dsc_to_gregorian" /\ KnownRule =>
        IF ~(call.arg[2] \in 1..10)
        THEN call.ret = Raise("ValueError", "Month must be 1..10")
        ELSE IF ~(call.arg[3] \in
                    1..get_month_lengths(calendar, call.arg[1]).val[call.arg[2]])
        THEN call.ret = Raise("ValueError", "Day out of range")
        ELSE call.ret.ok

\* C8: dsc_to_gregorian(year, month, day) fails with the month error when
\* month is outside 1..10, before anything else; then with the error of an
\* unknown leap rule; then with the day error when day is outside
\* 1..get_month_lengths(year)[month - 1]; then, a year outside
\* MINYEAR..MAXYEAR having no January 1st and no date lying after the last
\* day of MAXYEAR, with an error of the date; and otherwise returns January
\* 1st of the year plus (the lengths of the preceding months + day - 1) days.
C8_InverseMapping ==
    call.op = "dsc_to_gregorian" =>
        IF ~(call.arg[2] \in 1..10)
        THEN call.ret = Raise("ValueError", "Month must be 1..10")
        ELSE IF ~get_month_lengths(calendar, call.arg[1]).ok
        THEN call.ret = Raise("ValueError", "Unknown leap rule")
        ELSE IF ~(call.arg[3] \in
                    1..get_month_lengths(calendar, call.arg[1]).val[call.arg[2]])
        THEN call.ret = Raise("ValueError", "Day out of range")
        ELSE IF ~(call.arg[1] \in MINYEAR..MAXYEAR)
        THEN call.ret = Raise("ValueError", "Resulting date invalid")
        ELSE IF toordinal(date(call.arg[1], 1, 1))
                + DayOfYear(get_month_lengths(calendar, call.arg[1]).val,
                            call.arg[2], call.arg[3]) - 1
                > toordinal(date(MAXYEAR, 12, 31))
        THEN call.ret = Raise("OverflowError", "date value out of range")
        ELSE call.ret =
                Ok(fromordinal(toordinal(date(call.arg[1], 1, 1))
                               + DayOfYear(get_month_lengths(calendar, call.arg[1]).val,
                                           call.arg[2], call.arg[3]) - 1))

\* day 38 of month 10 of the leap year 2024 came out as December 31st
C8_Witness ==
    /\ call.op = "dsc_to_gregorian"
    /\ FixedGregorian
    /\ call.arg = <<2024, 10, 38>>
    /\ call.ret = Ok(date(2024, 12, 31))

\* C9: on every calendar of one of the three leap rules, gregorian_to_dsc
\* places every valid civil date, day 366 of a civil leap year too, in one
\* of the 10 months: it never fails with the error of a date out of bounds.
C9_ForwardNeverOutOfBounds ==
    call.op = "gregorian_to_dsc" /\ KnownRule =>
        /\ call.ret.ok
        /\ call.ret.val[2] \in 1..10

(***************************************************************************)
(* Properties of the serialization of a profile, under SpecProfile         *)
(***************************************************************************)
\* C10: to_json serializes every profile, and from_json of the text is a
\* profile equal to it, field by field, its Decimal fields the very same
\* decimals: non-integer epoch offsets, a rate of 0 and an absent rate
\* included.
C10_SerializationRoundTrip ==
    /\ call.op = "to_json" => call.ret.ok
    /\ call.op = "from_json(to_json)" =>
          /\ call.ret.ok
          /\ profile_eq(call.ret.val, call.arg)
          /\ call.ret.val.seconds_per_ac = call.arg.seconds_per_ac
          /\ call.ret.val.year_in_acs = call.arg.year_in_acs
          /\ call.ret.val.accumulator_rate = call.arg.accumulator_rate

(***************************************************************************)
(* Properties of construction, under SpecNewProfile and SpecNewCal         *)
(***************************************************************************)
\* d <= 0
NonPositive(d) == DecIsZero(d) \/ d.sign = 1

\* C11: a profile whose seconds_per_day is zero or negative is rejected:
\* neither construction (PlanetProfile, from_dict) returns such a profile,
\* nor does elapsed_to_ac_fraction return a (day_index, fraction) for one.
C11_NonPositiveDayLengthRejected ==
    /\ (call.op \in {"PlanetProfile", "from_dict"} /\ call.ret.ok
            => ~NonPositive(call.ret.val.seconds_per_ac))
    /\ (call.op = "elapsed_to_ac_fraction" /\ NonPositive(profile.seconds_per_ac)
            => ~call.ret.ok)

\* C12: constructing a calendar with the rule accumulator and no rate fails
\* (ValueError) and produces no calendar; with gregorian_earth or none and
\* no rate it succeeds and gives the calendar of that rule.
C12_AccumulatorNeedsRate ==
    /\ (calendar.leap_rule = "accumulator" => calendar.accumulator_rate # None)
    /\ (call.op = "DecimalSolarCalendar" /\ call.arg = <<"accumulator", None>>
            => ~call.ret.ok /\ call.ret.exc = "ValueError")
    /\ (call.op = "DecimalSolarCalendar" /\ call.arg[1] \in {"gregorian_earth", "none"}
        /\ call.arg[2] = None
            => /\ call.ret = Ok([leap_rule |-> call.arg[1], accumulator_rate |-> None])
               /\ calendar = call.ret.val)

\* the construction of an accumulator calendar without a rate has failed,
\* and the calendar constructed before is the one in use
C12_Witness ==
    /\ call.op = "DecimalSolarCalendar"
    /\ call.arg = <<"accumulator", None>>
    /\ ~call.ret.ok
    /\ calendar.leap_rule = "none"

\* C13: an unknown leap-rule tag is an error of the construction call itself,
\* so that no later get_month_lengths, gregorian_to_dsc or dsc_to_gregorian
\* call on a constructed calendar fails because of the tag.
C13_UnknownRuleFailsAtConstruction ==
    /\ (call.op = "DecimalSolarCalendar"
        /\ call.arg[1] \notin {"gregorian_earth", "accumulator", "none"}
            => ~call.ret.ok)
    /\ (call.op \in {"get_month_lengths", "gregorian_to_dsc", "dsc_to_gregorian"}
        /\ ~call.ret.ok
            => call.ret.msg # "Unknown leap rule")

\* C14: every profile that construction (PlanetProfile) or deserialization
\* (from_dict, and from_json through it) returns has an accumulator_rate if
\* and only if its leap_rule is accumulator.
C14_RateIffAccumulator ==
    /\ (profile.accumulator_rate # None) <=> (profile.leap_rule = "accumulator")
    /\ (call.op \in {"PlanetProfile", "from_dict"} /\ call.ret.ok
            => ((call.ret.val.accumulator_rate # None)
                    <=> (call.ret.val.leap_rule = "accumulator")))

(***************************************************************************)
(* Properties of the conversions together, under SpecFrame                 *)
(***************************************************************************)
\* C15: no conversion (to_elapsed_seconds, elapsed_to_ac_fraction,
\* to_decimal_display, get_month_lengths, gregorian_to_dsc, dsc_to_gregorian)
\* changes the profile, the calendar or the list BASE_MONTH_LENGTHS of the
\* class, which stays [36, 37] * 5 also after get_month_lengths of a leap
\* year; get_month_lengths of a non-leap year returns that sequence.
C15_ConversionsMutateNothing ==
    [][/\ profile' = profile
       /\ calendar' = calendar
       /\ base_month_lengths' = base_month_lengths
       /\ base_month_lengths' = BASE_MONTH_LENGTHS
       /\ (call'.op = "get_month_lengths" /\ is_leap(calendar, call'.arg) = Ok(FALSE)
            => call'.ret = Ok(<<36, 37, 36, 37, 36, 37, 36, 37, 36, 37>>))]_vars

\* get_month_lengths of a leap year has returned 38 days for month 10, and
\* the list of the class is as it was
C15_Witness ==
    /\ call.op = "get_month_lengths"
    /\ call.ret.ok
    /\ call.ret.val[10] = 38
    /\ base_month_lengths[10] = 37

(***************************************************************************)
(* Properties of to_elapsed_seconds, under SpecElapsed                     *)
(***************************************************************************)
\* |d|
DecAbs(d) == Dec(0, d.int, d.exp)

\* the number of digits of d from its first nonzero digit to its last
SignificantDigits(d) ==
    IF DecIsZero(d) THEN 1 ELSE Len(Strip(d.int)) - TrailingZeros(Strip(d.int))

\* the decimal number the timestamp is written as (for a float the digits
\* repr() shows, which are not the value of the double) minus the epoch
\* offset of the profile, exactly
WrittenMinusEpoch == ExactSub(IF call.arg.type = "float" THEN call.arg.repr ELSE call.arg.val, profile.epoch_offset_seconds.val)

\* ret is exact to 50 significant digits: equal to exact if that has no more
\* than 50, and else a 50-digit number within half a unit of its last digit
ToFiftyDigits(ret, exact) ==
    IF SignificantDigits(exact) <= 50 THEN DecCmp(ret, exact) = 0
    ELSE /\ Len(ret.int) = 50
         /\ DecCmp(ExactMul(DecOfInt(2), DecAbs(ExactSub(ret, exact))), Dec(0, <<1>>, ret.exp)) <= 0

\* C17 as it is written: a float gives the decimal number it is written as
\* minus the epoch offset, with no digit of binary noise (so within 1e-10 of
\* it), and an int or a Decimal gives exactly timestamp - epoch offset.
C17_AsWritten ==
    call.op = "to_elapsed_seconds" =>
        /\ DecCmp(DecAbs(ExactSub(call.ret, WrittenMinusEpoch)), Dec(0, <<1>>, -10)) < 0
        /\ DecCmp(call.ret, WrittenMinusEpoch) = 0

\* C17: to_elapsed_seconds of a float is the decimal number repr() shows
\* minus the epoch offset, exactly (12345.6789 with the offset 0 gives
\* Decimal('12345.6789')); of an int or a Decimal it is timestamp - epoch
\* offset to 50 significant digits, exact when the difference has no more.
C17_ElapsedFromWrittenValue ==
    call.op = "to_elapsed_seconds" =>
        /\ (call.arg.type = "float" => DecCmp(call.ret, WrittenMinusEpoch) = 0)
        /\ ToFiftyDigits(call.ret, WrittenMinusEpoch)
        /\ (call.arg.repr = Dec(0, <<1, 2, 3, 4, 5, 6, 7, 8, 9>>, -4)
            /\ DecIsZero(profile.epoch_offset_seconds.val)
                => call.ret = Dec(0, <<1, 2, 3, 4, 5, 6, 7, 8, 9>>, -4))

\* the float 12345.6789, whose double is 12345.67890000000079..., was
\* converted with the epoch offset 0
C17_Witness ==
    /\ call.op = "to_elapsed_seconds"
    /\ call.arg.type = "float"
    /\ call.arg.repr = Dec(0, <<1, 2, 3, 4, 5, 6, 7, 8, 9>>, -4)
    /\ call.arg.val # call.arg.repr
    /\ DecIsZero(profile.epoch_offset_seconds.val)
    /\ call.ret = Dec(0, <<1, 2, 3, 4, 5, 6, 7, 8, 9>>, -4)

(***************************************************************************)
(* Properties of the decimal context, under SpecContext                    *)
(***************************************************************************)
\* mc, kc and c of the fraction f as a context of 50 digits gives them
AtFiftyDigits(f) == [mc |-> mc(f, CTX_PREC), kc |-> kc(f, CTX_PREC), c |-> c(f, CTX_PREC)]

\* C16: every operation computes in a context of 50 digits of its own: the
\* precision of the caller's context is after the operation what it was
\* before, and what the operation returns is what 50 digits give, whatever
\* the context of the caller (so the same as when run alone).
C16_FiftyDigitLocalContext ==
    [][/\ ambient_prec' = ambient_prec
       /\ (call'.op = "DeciStruct" => call'.ret = AtFiftyDigits(call'.arg))
       /\ (call'.op = "repr(DeciStruct)" =>
              /\ call'.ret.ac = FormatF(DecFix(call'.arg, CTX_PREC), 6)
              /\ [mc |-> call'.ret.mc, kc |-> call'.ret.kc, c |-> call'.ret.c]
                    = AtFiftyDigits(call'.arg))]_vars

(***************************************************************************)
(* Properties of the month lengths and of gregorian_to_dsc, under          *)
(* SpecNewCal                                                              *)
(***************************************************************************)
\* C18: on every calendar and for every year get_month_lengths returns 10
\* integers, the first nine 36, 37, 36, 37, 36, 37, 36, 37, 36 whatever the
\* year, the tenth 37 in a non-leap year and 38, never more, in a leap year
\* of the calendar, so that they sum to 365 or 366.
C18_MonthLengths ==
    call.op = "get_month_lengths" =>
        /\ call.ret.ok
        /\ Len(call.ret.val) = 10
        /\ SubSeq(call.ret.val, 1, 9) = <<36, 37, 36, 37, 36, 37, 36, 37, 36>>
        /\ call.ret.val[10] = (IF is_leap(calendar, call.arg) = Ok(TRUE) THEN 38 ELSE 37)
        /\ sum(call.ret.val) \in {365, 366}

\* the day of the year of a civil date, January 1st being day 1
CivilDayOfYear(d) == toordinal(d) - toordinal(date(d.year, 1, 1)) + 1

\* C19: gregorian_to_dsc returns the year of the civil date, the first month
\* whose cumulative length reaches the day of the year, and the day of the
\* year minus the lengths of the months before it: a month in 1..10 and a
\* day in 1..get_month_lengths(year)[month - 1].  Under gregorian_earth,
\* 2026-03-01 is (2026, 2, 24), 2026-06-15 is (2026, 5, 20), 2026-12-31 is
\* (2026, 10, 37) and 2024-12-31 is (2024, 10, 38).
C19_ForwardMapping ==
    call.op = "gregorian_to_dsc" =>
        /\ call.ret.ok
        /\ call.ret.val[1] = call.arg.year
        /\ call.ret.val[2] \in 1..10
        /\ sum(SubSeq(get_month_lengths(calendar, call.arg.year).val, 1, call.ret.val[2] - 1))
                < CivilDayOfYear(call.arg)
        /\ CivilDayOfYear(call.arg)
                <= sum(SubSeq(get_month_lengths(calendar, call.arg.year).val, 1, call.ret.val[2]))
        /\ call.ret.val[3] = CivilDayOfYear(call.arg)
                - sum(SubSeq(get_month_lengths(calendar, call.arg.year).val, 1, call.ret.val[2] - 1))
        /\ call.ret.val[3] \in 1..get_month_lengths(calendar, call.arg.year).val[call.ret.val[2]]
        /\ (FixedGregorian /\ call.arg = date(2026, 3, 1) => call.ret.val = <<2026, 2, 24>>)
        /\ (FixedGregorian /\ call.arg = date(2026, 6, 15) => call.ret.val = <<2026, 5, 20>>)
        /\ (FixedGregorian /\ call.arg = date(2026, 12, 31) => call.ret.val = <<2026, 10, 37>>)
        /\ (FixedGregorian /\ call.arg = date(2024, 12, 31) => call.ret.val = <<2024, 10, 38>>)

(***************************************************************************)
(* Properties of the accumulator rule over consecutive years, under        *)
(* SpecWindow                                                              *)
(***************************************************************************)
\* floor(year * rate), exactly
ExactFloor(year, rate) == PyInt(DecFloor(ExactMul(DecOfInt(year), rate)))

\* the number of the calls i..j that answered leap
LeapsAmong(i, j) == Cardinality({k \in i..j : leap_calls[k].ret = Ok(TRUE)})

\* C20: under the accumulator rule with a rate r in [0, 1], the number of
\* leap years among the consecutive years a+1..b is floor(b * r) -
\* floor(a * r), and two windows of the same length never differ by more
\* than one leap year.
C20_LeapYearsEvenlyDistributed ==
    leap_calls # <<>> =>
        /\ LeapsAmong(1, Len(leap_calls))
              = ExactFloor(leap_calls[Len(leap_calls)].year, calendar.accumulator_rate[1])
                - ExactFloor(leap_calls[1].year - 1, calendar.accumulator_rate[1])
        /\ \A i, j \in 1..Len(leap_calls) : \A len \in 0..(Len(leap_calls) - Max(i, j)) :
              /\ LeapsAmong(i, i + len) - LeapsAmong(j, j + len) <= 1
              /\ LeapsAmong(j, j + len) - LeapsAmong(i, i + len) <= 1


(***************************************************************************)
(* Properties of dsc_to_gregorian followed by gregorian_to_dsc, under      *)
(* SpecInverse                                                             *)
(***************************************************************************)
\* C22: for every calendar and every (year, month, day) that
\* dsc_to_gregorian accepts, the civil date it returns lies in the civil year
\* `year`, and gregorian_to_dsc maps that date back to the same (year, month,
\* day), so that no two valid decimal dates share a civil date.
C22_InverseRoundTrip ==
    /\ (call.op = "dsc_to_gregorian" /\ call.ret.ok)
            => call.ret.val.year = call.arg[1]
    /\ call.op = "gregorian_to_dsc(dsc_to_gregorian)"
            => call.ret = Ok(call.arg)


(***************************************************************************)
(* Properties of gmtime, under SpecGmtime                                  *)
(***************************************************************************)
\* the number the timestamp is written as
SecondsGiven == IF call.arg.type = "Decimal" THEN call.arg.val ELSE call.arg.repr

\* the instants of the years MINYEAR..MAXYEAR, those a datetime can hold:
\* from the first second of 0001-01-01 to before the first of 10000-01-01
InDatetimeRange(ts) ==
    /\ DecCmp(ts, ExactMul(DecOfInt(1 - toordinal(date(1970, 1, 1))), AC_SECONDS_EARTH)) >= 0
    /\ DecCmp(ts, ExactMul(DecOfInt(MAXORDINAL + 1 - toordinal(date(1970, 1, 1))),
                           AC_SECONDS_EARTH)) < 0

\* the UTC day the instant ts falls in, 1970-01-01 being day 0: the floor of
\* ts / 86400
UtcDay(ts) ==
    LET whole == DecFloor(ts)
        dm    == NatDivMod(whole.int, AC_SECONDS_EARTH.int)
    IN  IF whole.sign = 0 THEN IntOfNat(dm.q)
        ELSE IF NatIsZero(dm.r) THEN -IntOfNat(dm.q)
        ELSE -IntOfNat(dm.q) - 1

\* the seconds elapsed at ts since the UTC midnight before it, exactly
SecondsSinceMidnight(ts) == ExactSub(ts, ExactMul(DecOfInt(UtcDay(ts)), AC_SECONDS_EARTH))

\* a and b differ by a microsecond at most
WithinMicrosecond(a, b) == DecCmp(DecAbs(ExactSub(a, b)), Dec(0, <<1>>, -6)) <= 0

\* C21: for every timestamp of the range of gmtime (an int, a float or a
\* Decimal, with a fraction or not, before the epoch or after) and every
\* profile, gmtime returns a DeciStruct without raising, whose ac_fraction f
\* has 0 <= f < 1; on the Earth profile f is the seconds elapsed since UTC
\* midnight divided by 86400 (to the microsecond the datetime keeps) and
\* day_of_year is the civil day of the year of the instant.
C21_GmtimeFraction ==
    (call.op = "gmtime" /\ InDatetimeRange(SecondsGiven)) =>
        /\ call.ret.ok
        /\ InUnitInterval(call.ret.val.ac_fraction)
        /\ profile = EARTH =>
              /\ WithinMicrosecond(ExactMul(call.ret.val.ac_fraction, AC_SECONDS_EARTH),
                                   SecondsSinceMidnight(SecondsGiven))
              /\ call.ret.val.day_of_year =
                    CivilDayOfYear(fromordinal(toordinal(date(1970, 1, 1))
                                               + UtcDay(SecondsGiven)))

====
